---- MODULE Spec2Model ----
(***************************************************************************)
(* Model of the candidate scoring engine of linked_in-Automate:            *)
(* candidate_scorer.py (CandidateScorer), the requirement extractor of     *)
(* utils.py (parse_job_requirements) and the reference tables of           *)
(* config.py.                                                              *)
(*                                                                         *)
(* Python values are modelled as tagged records: [t |-> "str", v |-> s],   *)
(* [t |-> "list", v |-> <<...>>], [t |-> "dict", v |-> [key |-> value]],   *)
(* [t |-> "int", v |-> n], [t |-> "none"].  An uncaught Python exception   *)
(* is the value [t |-> "raise"], which every caller propagates.  Text is   *)
(* kept as TLA+ strings and processed character by character.              *)
(***************************************************************************)
EXTENDS Integers, Sequences, FiniteSets, TLC

(***************************************************************************)
(* Python values                                                           *)
(***************************************************************************)
NoneV == [t |-> "none"]

RaiseV == [t |-> "raise"]

Str(s) == [t |-> "str", v |-> s]

PyInt(n) == [t |-> "int", v |-> n]

List(l) == [t |-> "list", v |-> l]

Dict(d) == [t |-> "dict", v |-> d]

EmptyDict == Dict([k \in {} |-> NoneV])

IsStr(x) == x.t = "str"

IsDict(x) == x.t = "dict"

IsRaise(x) == x.t = "raise"

\* bool(x): None, 0, "", [] and {} are falsy
Truthy(x) ==
  CASE x.t = "none" -> FALSE
    [] x.t = "int" -> x.v # 0
    [] x.t = "str" -> x.v # ""
    [] x.t = "list" -> Len(x.v) > 0
    [] x.t = "dict" -> DOMAIN x.v # {}
    [] OTHER -> TRUE

\* d.get(k, dflt) of a dict value d
Get(d, k, dflt) == IF k \in DOMAIN d.v THEN d.v[k] ELSE dflt

\* k in d
HasKey(d, k) == k \in DOMAIN d.v

\* a or b
PyOr(a, b) == IF Truthy(a) THEN a ELSE b

Max(a, b) == IF a >= b THEN a ELSE b

Min(a, b) == IF a <= b THEN a ELSE b

(***************************************************************************)
(* str methods                                                             *)
(***************************************************************************)
UpperChars == "ABCDEFGHIJKLMNOPQRSTUVWXYZ"

LowerChars == "abcdefghijklmnopqrstuvwxyz"

Char(s, i) == SubSeq(s, i, i)

UpperSet == {Char(UpperChars, i) : i \in 1..26}

LowerSet == {Char(LowerChars, i) : i \in 1..26}

\* c.isupper() of one ASCII character
IsUpperChar(c) == c \in UpperSet

LowerChar(c) ==
  IF IsUpperChar(c)
    THEN Char(LowerChars, CHOOSE i \in 1..26 : Char(UpperChars, i) = c)
    ELSE c

RECURSIVE Lower(_)
\* s.lower()
Lower(s) ==
  IF s = "" THEN ""
  ELSE IF Len(s) = 1 THEN LowerChar(s)
  ELSE Lower(SubSeq(s, 1, Len(s) \div 2)) \o Lower(SubSeq(s, Len(s) \div 2 + 1, Len(s)))

\* s.startswith(p) at offset i (1-based)
MatchAt(p, s, i) == i + Len(p) - 1 <= Len(s) /\ SubSeq(s, i, i + Len(p) - 1) = p

\* p in s
Contains(p, s) == \E i \in 1..(Len(s) - Len(p) + 1) : MatchAt(p, s, i)

StartsWith(s, p) == MatchAt(p, s, 1)

\* characters str.strip() and str.split() treat as whitespace
IsSpace(c) == c \in {" ", "\n", "\t", "\r"}

RECURSIVE LStripSet(_, _)
\* s.lstrip(chars)
LStripSet(s, chars) ==
  IF s # "" /\ Char(s, 1) \in chars THEN LStripSet(SubSeq(s, 2, Len(s)), chars) ELSE s

RECURSIVE RStripSet(_, _)
\* s.rstrip(chars)
RStripSet(s, chars) ==
  IF s # "" /\ Char(s, Len(s)) \in chars THEN RStripSet(SubSeq(s, 1, Len(s) - 1), chars) ELSE s

StripSet(s, chars) == RStripSet(LStripSet(s, chars), chars)

\* s.strip()
Strip(s) == StripSet(s, {" ", "\n", "\t", "\r"})

\* index of the first occurrence of sep in s at or after i, 0 when there is none
FindFrom(sep, s, i) ==
  IF \E j \in i..Len(s) : MatchAt(sep, s, j)
    THEN CHOOSE j \in i..Len(s) : MatchAt(sep, s, j) /\ \A k \in i..(j - 1) : ~MatchAt(sep, s, k)
    ELSE 0

RECURSIVE Split(_, _)
\* s.split(sep), sep a non-empty string
Split(s, sep) ==
  LET j == FindFrom(sep, s, 1)
  IN IF j = 0 THEN <<s>>
     ELSE <<SubSeq(s, 1, j - 1)>> \o Split(SubSeq(s, j + Len(sep), Len(s)), sep)

RECURSIVE SplitWs(_)
\* s.split(): runs of whitespace separate, no empty parts
SplitWs(s) ==
  LET t == LStripSet(s, {" ", "\n", "\t", "\r"})
  IN IF t = "" THEN <<>>
     ELSE LET n == IF \E j \in 1..Len(t) : IsSpace(Char(t, j))
                     THEN (CHOOSE j \in 1..Len(t) :
                             IsSpace(Char(t, j)) /\ \A k \in 1..(j - 1) : ~IsSpace(Char(t, k))) - 1
                     ELSE Len(t)
          IN <<SubSeq(t, 1, n)>> \o SplitWs(SubSeq(t, n + 1, Len(t)))

Last(seq) == seq[Len(seq)]

\* [x.lower() for x in list]
LowerAll(list) == [i \in 1..Len(list) |-> Lower(list[i])]

\* some entry of a lowercased reference list occurs in the lowercased text
AnyIn(lowlist, lowtext) == \E i \in 1..Len(lowlist) : Contains(lowlist[i], lowtext)

\* number of entries of a list of lowercase keywords that occur in either text
CountIn(list, low1, low2) ==
  Cardinality({i \in 1..Len(list) : Contains(list[i], low1) \/ Contains(list[i], low2)})

(***************************************************************************)
(* Reference tables (config.py)                                            *)
(***************************************************************************)
\* the six categories, in the order score_candidate builds the breakdown
Categories ==
  <<"education", "career_trajectory", "company_relevance",
    "experience_match", "location_match", "tenure">>

\* a mis-keyed table: education 0.25 instead of 0.20
SCORING_WEIGHTS_Skewed ==
  [education |-> 25, career_trajectory |-> 20, company_relevance |-> 15,
   experience_match |-> 25, location_match |-> 10, tenure |-> 10]

\* weights in hundredths: 0.20 is 20
SCORING_WEIGHTS ==
  [education |-> 20, career_trajectory |-> 20, company_relevance |-> 15,
   experience_match |-> 25, location_match |-> 10, tenure |-> 10]

TOP_ML_COMPANIES ==
  <<"Google", "DeepMind", "OpenAI", "Microsoft", "Meta", "Apple",
    "Amazon", "Anthropic", "Inflection AI", "Hugging Face", "Cohere",
    "Stability AI", "Midjourney", "GitHub", "Cursor", "Replit",
    "Databricks", "Scale AI", "Nvidia", "Intel", "IBM", "Salesforce",
    "Adobe", "Twitter", "LinkedIn", "Snapchat", "TikTok", "Netflix",
    "Uber", "Lyft", "Airbnb", "Spotify", "Pinterest", "Stripe",
    "Waymo", "Tesla", "Cruise", "Aurora">>

TOP_UNIVERSITIES ==
  <<"MIT", "Stanford", "Carnegie Mellon", "UC Berkeley", "Harvard",
    "Princeton", "California Institute of Technology", "ETH Zurich",
    "University of Oxford", "University of Cambridge", "Imperial College London",
    "University of Washington", "Georgia Tech", "University of Illinois",
    "University of Toronto", "University of Montreal", "University of Michigan",
    "Cornell University", "Columbia University", "University of Pennsylvania",
    "UCLA", "UCSD", "NYU", "University of Texas", "University of Wisconsin">>

ML_AI_SKILLS ==
  <<"machine learning", "deep learning", "artificial intelligence", "neural networks",
    "natural language processing", "NLP", "computer vision", "reinforcement learning",
    "transformer models", "GPT", "BERT", "large language models", "LLMs", "PyTorch",
    "TensorFlow", "Keras", "JAX", "scikit-learn", "data science", "AI research",
    "model training", "fine-tuning", "prompt engineering", "vector embeddings",
    "transfer learning", "generative AI", "diffusion models", "multimodal models">>

TARGET_LOCATION == "Mountain View"

NEARBY_LOCATIONS ==
  <<"San Francisco", "Palo Alto", "Menlo Park", "Sunnyvale",
    "Santa Clara", "San Jose", "Redwood City", "Cupertino">>

\* the reference tables as the scorers compare them: x.lower()
LowerCompanies == LowerAll(TOP_ML_COMPANIES)

LowerUniversities == LowerAll(TOP_UNIVERSITIES)

LowerSkills == LowerAll(ML_AI_SKILLS)

(***************************************************************************)
(* Iteration and field resolution                                          *)
(***************************************************************************)
\* for x in v: a list yields its elements, a str its characters; anything
\* else the inputs of this model hold (int, None) raises TypeError
Iterable(x) == x.t \in {"list", "str"}

Items(x) ==
  IF x.t = "list" THEN x.v ELSE [i \in 1..Len(x.v) |-> Str(Char(x.v, i))]

\* the fallback chain repeated at the head of each scorer:
\*   v = candidate.get(field, dflt)
\*   if not v and isinstance(candidate.get('raw_data'), dict):
\*       v = candidate.get('raw_data', {}).get(field, dflt)
Resolve(candidate, field, dflt) ==
  LET top == Get(candidate, field, dflt)
  IN IF ~Truthy(top) /\ IsDict(Get(candidate, "raw_data", NoneV))
       THEN Get(Get(candidate, "raw_data", EmptyDict), field, dflt)
       ELSE top

(***************************************************************************)
(* _score_education                                                        *)
(***************************************************************************)
\* degree_scores, in the insertion order the lookup loop walks
DegreeKeys ==
  <<"phd", "doctorate", "ph.d", "master", "ms", "msc", "ma", "bachelor", "bs", "bsc", "ba">>

DegreeValues == <<10, 10, 10, 8, 8, 8, 8, 6, 6, 6, 6>>

\* value of the first key of degree_scores found in the lowercased degree
\* field (the loop breaks at the first hit), 0 when none is
DegreeScore(lowdegree) ==
  IF \E i \in 1..Len(DegreeKeys) : Contains(DegreeKeys[i], lowdegree)
    THEN DegreeValues[CHOOSE i \in 1..Len(DegreeKeys) :
           /\ Contains(DegreeKeys[i], lowdegree)
           /\ \A j \in 1..(i - 1) : ~Contains(DegreeKeys[j], lowdegree)]
    ELSE 0

\* school_name of one education entry
SchoolName(edu) ==
  IF IsDict(edu)
    THEN PyOr(PyOr(Get(edu, "school", NoneV), Get(edu, "schoolName", NoneV)),
              Get(edu, "institution", NoneV))
    ELSE IF IsStr(edu) THEN edu ELSE NoneV

\* degree_field of one education entry
DegreeField(edu) ==
  IF IsDict(edu)
    THEN PyOr(PyOr(Get(edu, "degree", NoneV), Get(edu, "degreeName", NoneV)), Str(""))
    ELSE IF IsStr(edu) THEN edu ELSE NoneV

\* one pass of the loop body over entry edu; acc carries school_score,
\* highest_degree_score and whether an exception escaped
EducationStep(acc, edu) ==
  LET school_name == SchoolName(edu)
      degree_field == DegreeField(edu)
  IN IF acc.raised \/ ~Truthy(school_name) THEN acc
     ELSE IF ~IsStr(school_name) THEN [acc EXCEPT !.raised = TRUE]
     ELSE LET elite == AnyIn(LowerUniversities, Lower(school_name.v))
              s1 == IF elite THEN Max(acc.school_score, 10) ELSE acc.school_score
              s2 == IF s1 < 5 THEN 6 ELSE s1
          IN IF ~Truthy(degree_field)
               THEN [acc EXCEPT !.school_score = s2]
               ELSE IF ~IsStr(degree_field)
                 THEN [acc EXCEPT !.raised = TRUE]
                 ELSE [acc EXCEPT !.school_score = s2,
                                  !.highest_degree_score =
                                     Max(@, DegreeScore(Lower(degree_field.v)))]

RECURSIVE EducationLoop(_, _, _)
EducationLoop(items, i, acc) ==
  IF i > Len(items) THEN acc
  ELSE EducationLoop(items, i + 1, EducationStep(acc, items[i]))

\* a variant that adds the three partial scores and returns the sum uncapped
ScoreEducationSummed(candidate) ==
  LET education == Resolve(candidate, "education", List(<<>>))
  IN IF ~Truthy(education) THEN PyInt(5)
     ELSE IF ~Iterable(education) THEN RaiseV
     ELSE LET acc == EducationLoop(Items(education), 1,
                       [school_score |-> 0, highest_degree_score |-> 0, raised |-> FALSE])
              progression_score == IF Len(education.v) > 1 THEN 8 ELSE 0
          IN IF acc.raised THEN RaiseV
             ELSE PyInt(acc.highest_degree_score + acc.school_score + progression_score)

ScoreEducation(candidate) ==
  LET education == Resolve(candidate, "education", List(<<>>))
  IN IF ~Truthy(education) THEN PyInt(5)
     ELSE IF ~Iterable(education) THEN RaiseV
     ELSE LET acc == EducationLoop(Items(education), 1,
                       [school_score |-> 0, highest_degree_score |-> 0, raised |-> FALSE])
              progression_score == IF Len(education.v) > 1 THEN 8 ELSE 0
          IN IF acc.raised THEN RaiseV
             ELSE PyInt(Min(10, Max(Max(acc.highest_degree_score, acc.school_score),
                                    progression_score)))

(***************************************************************************)
(* Clock, str ordering and number formatting                               *)
(***************************************************************************)
\* printable ASCII in code-point order (the double quote, 34, the backslash,
\* 92, and the backquote, 96, left out); Ord gives the order str comparison uses
AsciiFrom35 ==
  "#$%&'()*+,-./0123456789:;<=>?@ABCDEFGHIJKLMNOPQRSTUVWXYZ["

AsciiFrom93 == "]^_"

AsciiFrom97 == "abcdefghijklmnopqrstuvwxyz{|}~"

Ord(c) ==
  IF c = " " THEN 32
  ELSE IF c = "!" THEN 33
  ELSE IF \E i \in 1..Len(AsciiFrom35) : Char(AsciiFrom35, i) = c
    THEN 34 + (CHOOSE i \in 1..Len(AsciiFrom35) : Char(AsciiFrom35, i) = c)
  ELSE IF \E i \in 1..Len(AsciiFrom93) : Char(AsciiFrom93, i) = c
    THEN 92 + (CHOOSE i \in 1..Len(AsciiFrom93) : Char(AsciiFrom93, i) = c)
  ELSE IF \E i \in 1..Len(AsciiFrom97) : Char(AsciiFrom97, i) = c
    THEN 96 + (CHOOSE i \in 1..Len(AsciiFrom97) : Char(AsciiFrom97, i) = c)
  ELSE 10

RECURSIVE StrLess(_, _)
\* a < b on str: lexicographic by code point
StrLess(a, b) ==
  IF b = "" THEN FALSE
  ELSE IF a = "" THEN TRUE
  ELSE IF Char(a, 1) = Char(b, 1) THEN StrLess(SubSeq(a, 2, Len(a)), SubSeq(b, 2, Len(b)))
  ELSE Ord(Char(a, 1)) < Ord(Char(b, 1))

Digits == "0123456789"

IsDigit(c) == \E i \in 1..10 : Char(Digits, i) = c

DigitValue(c) == (CHOOSE i \in 1..10 : Char(Digits, i) = c) - 1

DigitChar(n) == Char(Digits, n + 1)

\* '%02d' and '%04d'
TwoDigits(n) == DigitChar((n \div 10) % 10) \o DigitChar(n % 10)

FourDigits(n) == TwoDigits((n \div 100) % 100) \o TwoDigits(n % 100)

\* datetime.now().strftime('%Y-%m') for the clock value d
StrftimeYm(d) == FourDigits(d.year) \o "-" \o TwoDigits(d.month)

(***************************************************************************)
(* _score_career_trajectory                                                *)
(***************************************************************************)
\* the dict appended to sorted_experience for one dict entry of experience
CareerEntry(exp, clock) ==
  LET date_range == Get(exp, "dates", NoneV)
      dates == IF HasKey(exp, "dates") /\ IsStr(date_range)
                 THEN Split(date_range.v, " - ") ELSE <<>>
      has == Len(dates) >= 2
  IN Dict([title |-> PyOr(Get(exp, "title", Str("")), Get(exp, "jobTitle", Str(""))),
           company |-> PyOr(Get(exp, "company", Str("")), Get(exp, "companyName", Str(""))),
           start_date |-> IF has THEN Str(dates[1]) ELSE NoneV,
           end_date |-> IF has
                          THEN (IF dates[2] # "Present" THEN Str(dates[2])
                                ELSE Str(StrftimeYm(clock)))
                          ELSE NoneV])

RECURSIVE CareerCollect(_, _, _)
\* the list built by the loop of lines 140-164: one entry per dict element
CareerCollect(items, i, clock) ==
  IF i > Len(items) THEN <<>>
  ELSE (IF IsDict(items[i]) THEN <<CareerEntry(items[i], clock)>> ELSE <<>>)
         \o CareerCollect(items, i + 1, clock)

RECURSIVE InsertByStart(_, _)
\* insert e after every element whose key is not greater (stable)
InsertByStart(sorted, e) ==
  IF sorted = <<>> THEN <<e>>
  ELSE IF StrLess(e.v.start_date.v, sorted[Len(sorted)].v.start_date.v)
         THEN InsertByStart(SubSeq(sorted, 1, Len(sorted) - 1), e) \o <<sorted[Len(sorted)]>>
         ELSE sorted \o <<e>>

RECURSIVE SortByStart(_, _)
\* list.sort(key=lambda x: x['start_date']) on str keys
SortByStart(entries, n) ==
  IF n = 0 THEN <<>> ELSE InsertByStart(SortByStart(entries, n - 1), entries[n])

\* the sort compares keys pairwise; with two or more elements a None key
\* meets a str or another None and the comparison raises TypeError
SortRaises(entries) ==
  Len(entries) >= 2 /\ \E i \in 1..Len(entries) : ~IsStr(entries[i].v.start_date)

\* sorted_experience after the try/except of lines 139-171, as a Python value
SortedExperience(experience, clock) ==
  LET collected == CareerCollect(Items(experience), 1, clock)
  IN IF Len(collected) > 0 /\ Truthy(collected[1].v.start_date)
       THEN (IF SortRaises(collected) THEN experience
             ELSE List(SortByStart(collected, Len(collected))))
       ELSE List(collected)

promotion_indicators == <<"senior", "lead", "manager", "director", "vp", "head", "chief">>

RECURSIVE IndicatorLoop(_, _, _, _)
\* the inner loop over promotion_indicators for one (previous, current) pair
IndicatorLoop(k, previous_title, current_title, acc) ==
  IF k > Len(promotion_indicators) \/ acc.raised THEN acc
  ELSE IF ~IsStr(current_title) THEN [acc EXCEPT !.raised = TRUE]
  ELSE IF ~Contains(promotion_indicators[k], Lower(current_title.v))
         THEN IndicatorLoop(k + 1, previous_title, current_title, acc)
  ELSE IF ~IsStr(previous_title) THEN [acc EXCEPT !.raised = TRUE]
  ELSE IndicatorLoop(k + 1, previous_title, current_title,
         IF Contains(promotion_indicators[k], Lower(previous_title.v))
           THEN acc ELSE [acc EXCEPT !.growth_indicators = @ + 1])

CurrentTitle(exp) ==
  IF IsDict(exp) THEN PyOr(Get(exp, "title", Str("")), Get(exp, "jobTitle", Str("")))
  ELSE Str("")

RECURSIVE GrowthLoop(_, _, _)
\* the loop of lines 177-190; acc carries previous_title and growth_indicators
GrowthLoop(items, i, acc) ==
  IF i > Len(items) \/ acc.raised THEN acc
  ELSE LET current_title == CurrentTitle(items[i])
           a1 == IF Truthy(acc.previous_title) /\ Truthy(current_title)
                   THEN IndicatorLoop(1, acc.previous_title, current_title, acc)
                   ELSE acc
       IN GrowthLoop(items, i + 1, [a1 EXCEPT !.previous_title = current_title])

\* len(x) of a list or str value
PyLen(x) == Len(x.v)

ScoreCareerTrajectory(candidate, clock) ==
  LET experience == Resolve(candidate, "experience", List(<<>>))
  IN IF ~Truthy(experience) THEN PyInt(5)
     ELSE IF ~Iterable(experience) THEN RaiseV
     ELSE LET sorted_experience == SortedExperience(experience, clock)
              acc == GrowthLoop(Items(sorted_experience), 1,
                       [previous_title |-> NoneV, growth_indicators |-> 0, raised |-> FALSE])
          IN IF acc.raised THEN RaiseV
             ELSE PyInt(Min(10,
                    IF acc.growth_indicators >= 2 THEN 8
                    ELSE IF acc.growth_indicators = 1 THEN 7
                    ELSE IF PyLen(sorted_experience) >= 3 THEN 6
                    ELSE 5))

\* the candidate's experience list once scoring has returned, with the list
\* sorted in place instead of a copy of it
ExperienceSortedInPlace(candidate, clock) ==
  LET experience == Resolve(candidate, "experience", List(<<>>))
  IN IF Truthy(experience) /\ Iterable(experience)
       THEN SortedExperience(experience, clock)
       ELSE experience

\* the candidate's experience list once scoring has returned: the scorers
\* build and sort their own list (sorted_experience) and in the except
\* branch only alias the original without writing to it
ExperienceAfterScoring(candidate, clock) ==
  Resolve(candidate, "experience", List(<<>>))

(***************************************************************************)
(* _score_company_relevance                                                *)
(***************************************************************************)
relevant_keywords ==
  <<"ai", "ml", "machine learning", "artificial intelligence",
    "tech", "software", "data", "research", "nlp", "computer vision">>

\* company_name of one experience entry
CompanyName(exp) ==
  IF IsDict(exp)
    THEN PyOr(Get(exp, "company", Str("")), Get(exp, "companyName", Str("")))
    ELSE IF IsStr(exp) /\ Contains("at", exp.v)
      THEN Str(Strip(Last(Split(exp.v, "at"))))
      ELSE NoneV

\* a variant of the loop body in which a relevant-industry keyword is worth 7
CompanyStepWeak(acc, exp) ==
  LET company_name == CompanyName(exp)
  IN IF acc.raised \/ ~Truthy(company_name) THEN acc
     ELSE IF ~IsStr(company_name) THEN [acc EXCEPT !.raised = TRUE]
     ELSE LET low == Lower(company_name.v)
              h1 == IF AnyIn(LowerCompanies, low)
                      THEN Max(acc.highest_company_score, 10)
                      ELSE acc.highest_company_score
              h2 == IF \E i \in 1..Len(relevant_keywords) : Contains(relevant_keywords[i], low)
                      THEN Max(h1, 7) ELSE h1
          IN [acc EXCEPT !.highest_company_score = h2]

\* one pass of the loop body of lines 222-247
CompanyStep(acc, exp) ==
  LET company_name == CompanyName(exp)
  IN IF acc.raised \/ ~Truthy(company_name) THEN acc
     ELSE IF ~IsStr(company_name) THEN [acc EXCEPT !.raised = TRUE]
     ELSE LET low == Lower(company_name.v)
              h1 == IF AnyIn(LowerCompanies, low)
                      THEN Max(acc.highest_company_score, 10)
                      ELSE acc.highest_company_score
              h2 == IF \E i \in 1..Len(relevant_keywords) : Contains(relevant_keywords[i], low)
                      THEN Max(h1, 8) ELSE h1
          IN [acc EXCEPT !.highest_company_score = h2]

RECURSIVE CompanyLoop(_, _, _)
CompanyLoop(items, i, acc) ==
  IF i > Len(items) THEN acc
  ELSE CompanyLoop(items, i + 1, CompanyStep(acc, items[i]))

ScoreCompanyRelevance(candidate) ==
  LET experience == Resolve(candidate, "experience", List(<<>>))
  IN IF ~Truthy(experience) THEN PyInt(5)
     ELSE IF ~Iterable(experience) THEN RaiseV
     ELSE LET acc == CompanyLoop(Items(experience), 1,
                       [highest_company_score |-> 0, raised |-> FALSE])
          IN IF acc.raised THEN RaiseV
             ELSE PyInt(Min(10, IF acc.highest_company_score > 0
                                  THEN acc.highest_company_score ELSE 5))

(***************************************************************************)
(* _score_experience_match                                                 *)
(***************************************************************************)
ml_ai_keywords ==
  <<"machine learning", "deep learning", "ai", "artificial intelligence",
    "ml engineer", "research", "pytorch", "tensorflow", "nlp", "llm">>

\* text one entry of candidate['experience'] adds to experience_text;
\* str + " " raises TypeError when the field is not a str
ExperienceTextOf(exp) ==
  IF IsDict(exp)
    THEN LET title == Get(exp, "title", Str(""))
             description == Get(exp, "description", Str(""))
         IN IF IsStr(title) /\ IsStr(description)
              THEN Str(title.v \o " " \o description.v \o " ")
              ELSE RaiseV
    ELSE IF IsStr(exp) THEN Str(exp.v \o " ") ELSE Str("")

RECURSIVE ExperienceTextLoop(_, _)
ExperienceTextLoop(items, i) ==
  IF i > Len(items) THEN Str("")
  ELSE LET head == ExperienceTextOf(items[i])
           rest == ExperienceTextLoop(items, i + 1)
       IN IF IsRaise(head) \/ IsRaise(rest) THEN RaiseV ELSE Str(head.v \o rest.v)

\* experience_text: built from the top-level 'experience' key only
ExperienceText(candidate) ==
  IF ~HasKey(candidate, "experience") THEN Str("")
  ELSE LET experience == candidate.v["experience"]
       IN IF ~Iterable(experience) THEN RaiseV
          ELSE ExperienceTextLoop(Items(experience), 1)

RECURSIVE InferSkills(_, _, _)
\* skills inferred from headline and experience text (lines 283-288)
InferSkills(i, lowheadline, lowtext) ==
  IF i > Len(ML_AI_SKILLS) THEN <<>>
  ELSE (IF Contains(LowerSkills[i], lowheadline) \/ Contains(LowerSkills[i], lowtext)
          THEN <<Str(ML_AI_SKILLS[i])>> ELSE <<>>)
         \o InferSkills(i + 1, lowheadline, lowtext)

RECURSIVE SkillList(_, _)
\* skill_list (lines 291-298): names of dict skills, str skills as they are
SkillList(items, i) ==
  IF i > Len(items) THEN <<>>
  ELSE LET skill == items[i]
           skill_name == IF IsDict(skill)
                           THEN PyOr(Get(skill, "name", Str("")), Get(skill, "skillName", Str("")))
                           ELSE skill
       IN (IF (IsDict(skill) /\ Truthy(skill_name)) \/ IsStr(skill)
             THEN <<skill_name>> ELSE <<>>)
            \o SkillList(items, i + 1)

\* does req_skill match candidate_skill (line 306); "raise" when .lower()
\* is called on a value that is not a str
SkillPairMatches(req_skill, candidate_skill) ==
  LET r == Lower(req_skill.v)
      c == Lower(candidate_skill.v)
  IN Contains(r, c) \/ Contains(c, r)

\* index of the first candidate skill the required skill matches, 0 if none
FirstMatch(req_skill, skill_list) ==
  IF \E j \in 1..Len(skill_list) : IsStr(skill_list[j]) /\ SkillPairMatches(req_skill, skill_list[j])
    THEN CHOOSE j \in 1..Len(skill_list) :
           /\ IsStr(skill_list[j]) /\ SkillPairMatches(req_skill, skill_list[j])
           /\ \A k \in 1..(j - 1) :
                ~(IsStr(skill_list[k]) /\ SkillPairMatches(req_skill, skill_list[k]))
    ELSE Len(skill_list) + 1

\* the inner loop reaches a value that is not a str before it breaks
MatchRaises(req_skill, skill_list) ==
  \/ (~IsStr(req_skill) /\ Len(skill_list) > 0)
  \/ (IsStr(req_skill) /\
        \E k \in 1..Len(skill_list) : ~IsStr(skill_list[k]) /\ k < FirstMatch(req_skill, skill_list))

\* score from the share of matched required skills (lines 311-325)
MatchScore(matching_skills, required_count, score) ==
  IF required_count = 0 THEN score
  ELSE IF 10 * matching_skills >= 9 * required_count THEN 10
  ELSE IF 10 * matching_skills >= 7 * required_count THEN 9
  ELSE IF 10 * matching_skills >= 5 * required_count THEN 8
  ELSE IF 10 * matching_skills >= 3 * required_count THEN 7
  ELSE IF matching_skills > 0 THEN 6
  ELSE 5

\* a boost that ignores the score it is added to
KeywordBoostUnguarded(score, keyword_matches) ==
  IF keyword_matches >= 3 THEN score + 1 ELSE score

\* keyword boost (lines 339-340)
KeywordBoost(score, keyword_matches) ==
  IF keyword_matches >= 3 /\ score < 8 THEN score + 1 ELSE score

ScoreExperienceMatch(candidate, job_requirements) ==
  LET skills0 == Resolve(candidate, "skills", List(<<>>))
      experience_text == ExperienceText(candidate)
      headline == Get(candidate, "headline", Str(""))
  IN IF IsRaise(experience_text) THEN RaiseV
     \* headline.lower() is reached in the inference loop or, at the latest,
     \* in the keyword loop
     ELSE IF ~IsStr(headline) THEN RaiseV
     ELSE LET lowheadline == Lower(headline.v)
              lowtext == Lower(experience_text.v)
              skills == IF ~Truthy(skills0)
                          THEN List(InferSkills(1, lowheadline, lowtext)) ELSE skills0
          IN IF ~Iterable(skills) THEN RaiseV
             ELSE LET skill_list == SkillList(Items(skills), 1)
                      required_skills == Get(job_requirements, "required_skills", List(<<>>))
                      req == required_skills.v
                      matching_skills ==
                        Cardinality({i \in 1..Len(req) :
                                       FirstMatch(req[i], skill_list) <= Len(skill_list)})
                      keyword_matches == CountIn(ml_ai_keywords, lowheadline, lowtext)
                  IN IF \E i \in 1..Len(req) : MatchRaises(req[i], skill_list) THEN RaiseV
                     ELSE PyInt(Min(10, KeywordBoost(MatchScore(matching_skills, Len(req), 5),
                                                     keyword_matches)))

(***************************************************************************)
(* _score_location_match                                                   *)
(***************************************************************************)
\* [TARGET_LOCATION] + NEARBY_LOCATIONS
KnownCities == <<TARGET_LOCATION>> \o NEARBY_LOCATIONS

LowerKnownCities == LowerAll(KnownCities)

LowerNearby == LowerAll(NEARBY_LOCATIONS)

\* the first known city found in the headline (lines 364-367), "" if none
CityInHeadline(lowheadline) ==
  IF AnyIn(LowerKnownCities, lowheadline)
    THEN KnownCities[CHOOSE i \in 1..Len(KnownCities) :
           /\ Contains(LowerKnownCities[i], lowheadline)
           /\ \A j \in 1..(i - 1) : ~Contains(LowerKnownCities[j], lowheadline)]
    ELSE ""

\* a variant in which the same-state test replaces the nearby-city score
\* instead of raising it
LocationScoreStateFirst(location) ==
  LET low == Lower(location)
      s1 == IF Contains(Lower(TARGET_LOCATION), low) THEN 10
            ELSE IF Contains("ca", low) \/ Contains("california", low) THEN 7
            ELSE IF AnyIn(LowerNearby, low) THEN 8 ELSE 5
      s2 == IF Contains("remote", low) THEN Max(s1, 6) ELSE s1
  IN Min(10, s2)

\* a variant in which a remote location scores 6 whatever else it names
LocationScoreRemoteOnly(location) ==
  LET low == Lower(location)
      s1 == IF Contains(Lower(TARGET_LOCATION), low) THEN 10
            ELSE LET s0 == IF AnyIn(LowerNearby, low) THEN 8 ELSE 5
                 IN IF Contains("ca", low) \/ Contains("california", low)
                      THEN Max(s0, 7) ELSE s0
      s2 == IF Contains("remote", low) THEN 6 ELSE s1
  IN Min(10, s2)

\* lines 373-391 for a resolved, non-empty location string
LocationScore(location) ==
  LET low == Lower(location)
      s1 == IF Contains(Lower(TARGET_LOCATION), low) THEN 10
            ELSE LET s0 == IF AnyIn(LowerNearby, low) THEN 8 ELSE 5
                 IN IF Contains("ca", low) \/ Contains("california", low)
                      THEN Max(s0, 7) ELSE s0
      s2 == IF Contains("remote", low) THEN Max(s1, 6) ELSE s1
  IN Min(10, s2)

ScoreLocationMatch(candidate) ==
  LET location == Resolve(candidate, "location", Str(""))
      headline == Get(candidate, "headline", Str(""))
  IN IF Truthy(location)
       THEN (IF IsStr(location) THEN PyInt(LocationScore(location.v)) ELSE RaiseV)
       ELSE IF ~IsStr(headline) THEN RaiseV
       ELSE IF Contains("remote", Lower(headline.v)) THEN PyInt(6)
       ELSE LET city == CityInHeadline(Lower(headline.v))
            IN IF city = "" THEN PyInt(5) ELSE PyInt(LocationScore(city))

(***************************************************************************)
(* _score_tenure                                                           *)
(***************************************************************************)
MonthNames ==
  <<"jan", "feb", "mar", "apr", "may", "jun", "jul", "aug", "sep", "oct", "nov", "dec">>

\* month_map.get(word.lower()[:3], 1)
MonthOf(word) ==
  LET key == SubSeq(Lower(word), 1, Min(3, Len(word)))
  IN IF \E m \in 1..12 : MonthNames[m] = key
       THEN CHOOSE m \in 1..12 : MonthNames[m] = key
       ELSE 1

RECURSIVE DigitsValue(_, _)
DigitsValue(s, acc) ==
  IF s = "" THEN acc
  ELSE DigitsValue(SubSeq(s, 2, Len(s)), Min(10000, 10 * acc + DigitValue(Char(s, 1))))

\* int(word) as far as datetime(year, month, 1) accepts it: the year when
\* the word is an optionally signed run of digits with value 1..9999, else 0
\* (int raises ValueError, or datetime does)
YearOf(word) ==
  LET neg == word # "" /\ Char(word, 1) = "-"
      body == IF word # "" /\ Char(word, 1) \in {"+", "-"} THEN SubSeq(word, 2, Len(word)) ELSE word
      ok == body # "" /\ \A i \in 1..Len(body) : IsDigit(Char(body, i))
      n == IF ok THEN DigitsValue(body, 0) ELSE 0
  IN IF ok /\ ~neg /\ n >= 1 /\ n <= 9999 THEN n ELSE 0

IsLeap(y) == (y % 4 = 0 /\ y % 100 # 0) \/ y % 400 = 0

DaysBeforeMonth == <<0, 31, 59, 90, 120, 151, 181, 212, 243, 273, 304, 334>>

\* date(year, month, day).toordinal()
Ordinal(y, m, d) ==
  365 * (y - 1) + ((y - 1) \div 4) - ((y - 1) \div 100) + ((y - 1) \div 400)
    + DaysBeforeMonth[m] + (IF m > 2 /\ IsLeap(y) THEN 1 ELSE 0) + d

\* datetime(year, month, 1) parsed from "Mon YYYY": its ordinal, 0 when the
\* text has fewer than two words (the date stays None), -1 when parsing raises
ParseMonthYear(text) ==
  LET parts == SplitWs(text)
  IN IF Len(parts) < 2 THEN 0
     ELSE IF YearOf(parts[2]) = 0 THEN -1
     ELSE Ordinal(YearOf(parts[2]), MonthOf(parts[1]), 1)

\* a variant that counts an entry whose dates fail to parse as a job of no
\* duration
TenureDaysCountsFailed(exp, clock) ==
  LET date_range == Get(exp, "dates", NoneV)
      dates == IF IsStr(date_range) THEN Split(date_range.v, " - ") ELSE <<>>
  IN IF ~IsDict(exp) \/ Truthy(Get(exp, "duration", Str(""))) \/ ~HasKey(exp, "dates")
       THEN [counted |-> FALSE, days |-> 0]
     ELSE IF Len(dates) < 2
       THEN [counted |-> TRUE, days |-> 0]
       ELSE LET end_date == IF Contains("present", Lower(dates[2]))
                              THEN Ordinal(clock.year, clock.month, clock.day)
                              ELSE ParseMonthYear(dates[2])
                start_date == ParseMonthYear(dates[1])
            IN IF end_date <= 0 \/ start_date <= 0
                 THEN [counted |-> TRUE, days |-> 0]
                 ELSE [counted |-> TRUE, days |-> end_date - start_date]

\* what one experience entry adds to (total_duration in days, job_count)
TenureDays(exp, clock) ==
  LET date_range == Get(exp, "dates", NoneV)
      dates == IF IsStr(date_range) THEN Split(date_range.v, " - ") ELSE <<>>
  IN IF ~IsDict(exp) \/ Truthy(Get(exp, "duration", Str(""))) \/ ~HasKey(exp, "dates")
          \/ Len(dates) < 2
       THEN [counted |-> FALSE, days |-> 0]
       ELSE LET end_date == IF Contains("present", Lower(dates[2]))
                              THEN Ordinal(clock.year, clock.month, clock.day)
                              ELSE ParseMonthYear(dates[2])
                start_date == ParseMonthYear(dates[1])
            IN IF end_date <= 0 \/ start_date <= 0
                 THEN [counted |-> FALSE, days |-> 0]
                 ELSE [counted |-> TRUE, days |-> end_date - start_date]

RECURSIVE TenureLoop(_, _, _, _)
TenureLoop(items, i, clock, acc) ==
  IF i > Len(items) THEN acc
  ELSE LET t == TenureDays(items[i], clock)
       IN TenureLoop(items, i + 1, clock,
            IF t.counted
              THEN [total_days |-> acc.total_days + t.days, job_count |-> acc.job_count + 1]
              ELSE acc)

\* lines 464-476, with avg_tenure = (total_days / 365) / job_count compared
\* without rounding: avg >= k  iff  total_days >= k * 365 * job_count
TenureScore(total_days, job_count) ==
  IF job_count = 0 THEN 5
  ELSE IF total_days >= 3 * 365 * job_count THEN 10
  ELSE IF total_days >= 2 * 365 * job_count THEN 9
  ELSE IF 2 * total_days >= 3 * 365 * job_count THEN 8
  ELSE IF total_days >= 365 * job_count THEN 7
  ELSE 5

ScoreTenure(candidate, clock) ==
  LET experience == Resolve(candidate, "experience", List(<<>>))
  IN IF ~Truthy(experience) THEN PyInt(5)
     ELSE IF ~Iterable(experience) THEN RaiseV
     ELSE LET acc == TenureLoop(Items(experience), 1, clock, [total_days |-> 0, job_count |-> 0])
          IN PyInt(Min(10, TenureScore(acc.total_days, acc.job_count)))

(***************************************************************************)
(* parse_job_requirements (utils.py)                                       *)
(***************************************************************************)
\* stands for the bullet character U+2022 in job descriptions
Bullet == "@"

IsLetter(c) == c \in UpperSet \/ c \in LowerSet

\* title (lines 90-97)
ParseTitle(job_description) ==
  LET first_line == Split(Strip(job_description), "\n")[1]
  IN IF Contains(":", first_line) THEN Strip(Split(first_line, ":")[1])
     ELSE IF Contains(",", first_line) THEN Strip(Split(first_line, ",")[1])
     ELSE first_line

\* '.' of the header pattern matches any character
HeaderWords == <<"requirements", "qualifications", "skills", "what you.ll need">>

\* word matches the lowercased line at offset 1, '.' matching any character
WordMatches(word, lowline) ==
  /\ Len(word) <= Len(lowline)
  /\ \A i \in 1..Len(word) : Char(word, i) = "." \/ Char(word, i) = Char(lowline, i)

\* re.search(r'^(requirements|qualifications|skills|what you.ll need).*:', line, re.IGNORECASE)
IsHeader(line) ==
  LET low == Lower(line)
  IN \E w \in 1..Len(HeaderWords) :
       /\ WordMatches(HeaderWords[w], low)
       /\ Contains(":", SubSeq(line, Len(HeaderWords[w]) + 1, Len(line)))

RECURSIVE ScanLinesSticky(_, _, _, _)
\* a scan that never leaves requirements mode once a header was seen
ScanLinesSticky(lines, i, in_requirements, skills) ==
  IF i > Len(lines) THEN skills
  ELSE LET line == Strip(lines[i])
           skill == Strip(LStripSet(line, {"-", Bullet}))
       IN IF IsHeader(line) THEN ScanLinesSticky(lines, i + 1, TRUE, skills)
          ELSE ScanLinesSticky(lines, i + 1, in_requirements,
                 IF in_requirements /\ (StartsWith(line, "-") \/ StartsWith(line, Bullet)) /\ skill # ""
                   THEN Append(skills, skill) ELSE skills)

RECURSIVE ScanLines(_, _, _, _)
\* the loop of lines 104-120 over the stripped lines
ScanLines(lines, i, in_requirements, skills) ==
  IF i > Len(lines) THEN skills
  ELSE LET line == Strip(lines[i])
       IN IF IsHeader(line) THEN ScanLines(lines, i + 1, TRUE, skills)
          ELSE LET still == in_requirements
                              /\ ~(line # "" /\ IsUpperChar(Char(line, 1)) /\ Contains(":", line))
                   skill == Strip(LStripSet(line, {"-", Bullet}))
               IN ScanLines(lines, i + 1, still,
                    IF still /\ (StartsWith(line, "-") \/ StartsWith(line, Bullet)) /\ skill # ""
                      THEN Append(skills, skill) ELSE skills)

BlockLabels == <<"skills", "requirements", "qualifications", "experience with">>

\* a label of the block pattern, followed by ':', starts at offset i
BlockLabelAt(low, i) ==
  \E w \in 1..Len(BlockLabels) : MatchAt(BlockLabels[w] \o ":", low, i)

BlockLabelLen(low, i) ==
  Len(BlockLabels[CHOOSE w \in 1..Len(BlockLabels) : MatchAt(BlockLabels[w] \o ":", low, i)]) + 1

\* the lazy group ends before "\n\n", before "\n" and a letter ([A-Z] under
\* re.IGNORECASE), or at \Z: the end of the text or its final newline
BlockEndsAt(text, q) ==
  \/ q > Len(text)
  \/ (q = Len(text) /\ Char(text, q) = "\n")
  \/ MatchAt("\n\n", text, q)
  \/ (Char(text, q) = "\n" /\ q < Len(text) /\ IsLetter(Char(text, q + 1)))

RECURSIVE NonEmptyStripped(_, _)
\* [s.strip("- <bullet>") for s in parts if s.strip()]
NonEmptyStripped(parts, i) ==
  IF i > Len(parts) THEN <<>>
  ELSE (IF Strip(parts[i]) # "" THEN <<StripSet(parts[i], {"-", " ", Bullet})>> ELSE <<>>)
         \o NonEmptyStripped(parts, i + 1)

\* the fallback of lines 123-129: group 1 of the first match of
\* (?:skills|requirements|qualifications|experience with)[:]\s*(.*?)(?:\n\n|\n[A-Z]|\Z)
BlockSkills(job_description) ==
  LET low == Lower(job_description)
      n == Len(job_description)
  IN IF ~\E i \in 1..n : BlockLabelAt(low, i) THEN <<>>
     ELSE LET i == CHOOSE i \in 1..n : BlockLabelAt(low, i) /\ \A j \in 1..(i - 1) : ~BlockLabelAt(low, j)
              rest == SubSeq(job_description, i + BlockLabelLen(low, i), n)
              body == LStripSet(rest, {" ", "\n", "\t", "\r"})
              q == CHOOSE q \in 1..(Len(body) + 1) :
                     BlockEndsAt(body, q) /\ \A k \in 1..(q - 1) : ~BlockEndsAt(body, k)
          IN NonEmptyStripped(Split(SubSeq(body, 1, q - 1), "\n"), 1)

\* length of the longest prefix of s whose characters satisfy in(c)
RECURSIVE RunLength(_, _, _)
RunLength(s, i, chars) ==
  IF i <= Len(s) /\ Char(s, i) \in chars THEN 1 + RunLength(s, i + 1, chars) ELSE 0

RECURSIVE NonDotRun(_, _)
NonDotRun(s, i) == IF i <= Len(s) /\ Char(s, i) # "." THEN 1 + NonDotRun(s, i + 1) ELSE 0

\* group 1 of a match of  label[\s:]+([^\.]+)  with the label at offset i of
\* the lowercased text, "" with found FALSE when there is no match there
LabelCaptureAt(text, label, i) ==
  LET after == i + Len(label)
      w == RunLength(text, after, {" ", "\n", "\t", "\r", ":"})
      m == NonDotRun(text, after + w)
  IN IF ~MatchAt(label, Lower(text), i) \/ w = 0 THEN [found |-> FALSE, group |-> ""]
     ELSE IF m > 0 THEN [found |-> TRUE, group |-> SubSeq(text, after + w, after + w + m - 1)]
     \* the greedy [\s:]+ gives its last character back to the group
     ELSE IF w >= 2 THEN [found |-> TRUE, group |-> Char(text, after + w - 1)]
     ELSE [found |-> FALSE, group |-> ""]

\* re.search over the labels (case-insensitive), first match, stripped
LabelCapture(text, labels) ==
  LET hit(i) == \E l \in 1..Len(labels) : LabelCaptureAt(text, labels[l], i).found
  IN IF ~\E i \in 1..Len(text) : hit(i) THEN ""
     ELSE LET i == CHOOSE i \in 1..Len(text) : hit(i) /\ \A j \in 1..(i - 1) : ~hit(j)
              l == CHOOSE l \in 1..Len(labels) : LabelCaptureAt(text, labels[l], i).found
          IN Strip(LabelCaptureAt(text, labels[l], i).group)

RECURSIVE StrList(_, _)
StrList(seq, i) == IF i > Len(seq) THEN <<>> ELSE <<Str(seq[i])>> \o StrList(seq, i + 1)

\* parse_job_requirements with the required skills stored under the key
\* the scorer reads
ParseJobRequirementsKeyed(job_description) ==
  LET scanned == ScanLines(Split(job_description, "\n"), 1, FALSE, <<>>)
      skills == IF scanned = <<>> THEN BlockSkills(job_description) ELSE scanned
  IN Dict([title |-> Str(ParseTitle(job_description)),
           required_skills |-> List(StrList(skills, 1)),
           location |-> Str(LabelCapture(job_description, <<"location">>)),
           education |-> Str(LabelCapture(job_description, <<"education", "degree">>))])

\* the requirement record: keys title, skills, location, education
ParseJobRequirements(job_description) ==
  LET scanned == ScanLines(Split(job_description, "\n"), 1, FALSE, <<>>)
      skills == IF scanned = <<>> THEN BlockSkills(job_description) ELSE scanned
  IN Dict([title |-> Str(ParseTitle(job_description)),
           skills |-> List(StrList(skills, 1)),
           location |-> Str(LabelCapture(job_description, <<"location">>)),
           education |-> Str(LabelCapture(job_description, <<"education", "degree">>))])

(***************************************************************************)
(* extract_keywords_from_job (utils.py)                                    *)
(***************************************************************************)
\* \w of the pattern: letters, digits and the underscore
IsWordChar(c) == IsLetter(c) \/ IsDigit(c) \/ c = "_"

RECURSIVE CleanText(_)
\* re.sub(r'[^\w\s]', ' ', text): punctuation replaced by a space
CleanText(s) ==
  IF s = "" THEN ""
  ELSE IF Len(s) = 1 THEN (IF IsWordChar(s) \/ IsSpace(s) THEN s ELSE " ")
  ELSE CleanText(SubSeq(s, 1, Len(s) \div 2)) \o CleanText(SubSeq(s, Len(s) \div 2 + 1, Len(s)))

stopwords ==
  {"the", "and", "to", "of", "a", "in", "for", "with", "on", "at", "from",
   "by", "about", "as", "into", "like", "through", "after", "over", "between",
   "out", "is", "am", "are", "was", "were", "be", "been", "being", "have", "has",
   "had", "do", "does", "did", "but", "if", "or", "because", "until", "while",
   "that", "this", "these", "those", "then", "than", "when", "where", "why", "how",
   "all", "any", "both", "each", "few", "more", "most", "other", "some", "such",
   "no", "nor", "not", "only", "own", "same", "so", "too", "very", "can", "will",
   "just", "should", "now", "role", "we", "our", "you", "your"}

technical_terms ==
  <<"python", "javascript", "java", "c++", "typescript", "ruby", "go", "rust", "php", "scala",
    "kotlin",
    "react", "angular", "vue", "django", "flask", "spring", "node", "express", "laravel", "rails",
    "machine learning", "deep learning", "tensorflow", "pytorch", "keras", "sklearn", "pandas",
    "numpy",
    "neural networks", "nlp", "computer vision", "reinforcement learning", "data mining",
    "statistics",
    "aws", "azure", "gcp", "docker", "kubernetes", "terraform", "cloud",
    "sql", "nosql", "mongodb", "postgresql", "mysql", "oracle", "cassandra", "redis",
    "elasticsearch",
    "rest", "api", "microservices", "ci/cd", "git", "agile", "scrum", "devops", "testing">>

\* line 51: the words that are no stopword and longer than two characters
FilteredWords(words) ==
  SelectSeq(words, LAMBDA w : w \notin stopwords /\ Len(w) > 2)

\* lines 54 and 80: the words among the 20 most common (Counter.most_common
\* orders by count, ties by first occurrence) that occur more than once
TopWords(filtered_words) ==
  LET count(i) == Cardinality({j \in 1..Len(filtered_words) : filtered_words[j] = filtered_words[i]})
      firsts == {i \in 1..Len(filtered_words) :
                   \A j \in 1..(i - 1) : filtered_words[j] # filtered_words[i]}
      rank(i) == Cardinality({j \in firsts : count(j) > count(i) \/ (count(j) = count(i) /\ j < i)})
  IN {filtered_words[i] : i \in {k \in firsts : rank(k) < 20 /\ count(k) > 1}}

\* lines 74-77: the terms that are a substring of the cleaned text
FoundTerms(text) ==
  {technical_terms[k] : k \in {n \in 1..Len(technical_terms) : Contains(technical_terms[n], text)}}

RECURSIVE Dropping(_, _)
\* the sets left when k elements of S are dropped
Dropping(S, k) ==
  IF k = 0 THEN {S} ELSE UNION {Dropping(S \ {x}, k - 1) : x \in S}

\* lines 83-85: list(set(...))[:15] keeps the first 15 elements in the
\* iteration order of a set of str, which depends on the hash seed of the
\* process: any 15 of them
FirstFifteen(S) ==
  IF Cardinality(S) <= 15 THEN {S} ELSE Dropping(S, Cardinality(S) - 15)

\* extract_keywords_from_job: the keyword lists, as sets, that a call can
\* return
ExtractKeywordsFromJob(job_description) ==
  FirstFifteen(FoundTerms(CleanText(Lower(job_description)))
                 \cup TopWords(FilteredWords(SplitWs(CleanText(Lower(job_description))))))

(***************************************************************************)
(* score_candidate                                                         *)
(***************************************************************************)
RECURSIVE WeightedSum(_, _, _)
\* calculate_weighted_average(score_breakdown, weights): the sum over the
\* categories of weight x score, in hundredths
WeightedSum(breakdown, weights, i) ==
  IF i > Len(Categories) THEN 0
  ELSE weights[Categories[i]] * breakdown[Categories[i]] + WeightedSum(breakdown, weights, i + 1)

calculate_weighted_average(breakdown, weights) == WeightedSum(breakdown, weights, 1)

\* the six category scores, each an int value or a raise
CategoryScores(candidate, requirements, clock) ==
  [education |-> ScoreEducation(candidate),
   career_trajectory |-> ScoreCareerTrajectory(candidate, clock),
   company_relevance |-> ScoreCompanyRelevance(candidate),
   experience_match |-> ScoreExperienceMatch(candidate, requirements),
   location_match |-> ScoreLocationMatch(candidate),
   tenure |-> ScoreTenure(candidate, clock)]

EmptyBreakdown == [c \in {} |-> 0]

\* the returned dict: total from the aggregator, breakdown as compiled
WithTotal(score_breakdown, weights) ==
  [t |-> "result",
   total |-> calculate_weighted_average(score_breakdown, weights),
   breakdown |-> score_breakdown]

\* lines 34-49: an exception raised by a scorer escapes the call, otherwise
\* the int scores are compiled into score_breakdown
CompileResult(scores, weights) ==
  IF \E c \in DOMAIN scores : IsRaise(scores[c]) THEN RaiseV
  ELSE WithTotal([c \in DOMAIN scores |-> scores[c].v], weights)

\* a variant that short-circuits on a missing experience list instead of on
\* an empty record
ScoreCandidateNoExperience(candidate, requirements, weights, clock) ==
  IF ~Truthy(Get(candidate, "experience", NoneV))
    THEN [t |-> "result", total |-> 0, breakdown |-> EmptyBreakdown]
  ELSE CompileResult(CategoryScores(candidate, requirements, clock), weights)

\* score_candidate: a ScoreResult [t |-> "result", total, breakdown], total
\* in hundredths, or a raise
ScoreCandidate(candidate, requirements, weights, clock) ==
  IF ~Truthy(candidate)
    THEN [t |-> "result", total |-> 0, breakdown |-> EmptyBreakdown]
  ELSE CompileResult(CategoryScores(candidate, requirements, clock), weights)

\* the candidate record once score_candidate has returned: the experience
\* list object holds ExperienceAfterScoring, everything else is only read
CandidateAfterScoring(candidate, clock) ==
  LET after == ExperienceAfterScoring(candidate, clock)
      raw == Get(candidate, "raw_data", NoneV)
  IN IF Truthy(Get(candidate, "experience", List(<<>>)))
       THEN Dict([candidate.v EXCEPT !["experience"] = after])
       ELSE IF IsDict(raw) /\ HasKey(raw, "experience")
         THEN Dict([candidate.v EXCEPT !["raw_data"] = Dict([raw.v EXCEPT !["experience"] = after])])
         ELSE candidate

(***************************************************************************)
(* Inputs: job descriptions and candidate records                          *)
(***************************************************************************)
\* marks an optional key the record does not carry
Absent == [t |-> "absent"]

\* the dict holding the pairs <<key, value>> whose value is not Absent
MkDict(pairs) ==
  LET idx == {i \in 1..Len(pairs) : pairs[i][2].t # "absent"}
  IN Dict([k \in {pairs[i][1] : i \in idx} |->
             pairs[CHOOSE i \in idx : pairs[i][1] = k][2]])

JobDescriptions ==
  <<"ML Engineer: Windsurf\nRequirements:\n- python\n- pytorch\nLocation: Mountain View.",
    "Data Analyst, Remote\nSkills: sql, statistics\n\nEducation: Bachelor degree.",
    "Barista">>

EducationOptions ==
  <<Absent,
    List(<<MkDict(<<<<"degree", Str("PhD")>>, <<"school", Str("MIT")>>>>)>>),
    List(<<MkDict(<<<<"degree", Str("PhD")>>>>)>>),
    List(<<MkDict(<<<<"school", Str("State College")>>, <<"degree", Str("Bachelor of Arts")>>>>),
           MkDict(<<<<"schoolName", Str("Harvard")>>, <<"degreeName", Str("MS")>>>>)>>),
    List(<<Str("BS, Ohio State")>>),
    List(<<>>)>>

ExperienceOptions ==
  <<Absent,
    List(<<MkDict(<<<<"title", Str("Engineer")>>>>),
           MkDict(<<<<"title", Str("Senior Engineer")>>>>),
           MkDict(<<<<"title", Str("Lead Engineer")>>>>)>>),
    List(<<MkDict(<<<<"title", Str("ML Engineer")>>, <<"company", Str("OpenAI")>>,
                    <<"dates", Str("Jan 2024 - Present")>>,
                    <<"description", Str("deep learning and NLP research")>>>>)>>),
    List(<<Str("Software Engineer at Google")>>),
    List(<<MkDict(<<<<"jobTitle", Str("Senior Manager")>>, <<"companyName", Str("Random Cafe")>>,
                    <<"dates", Str("Mar 2019 - Jan 2020")>>>>),
           MkDict(<<<<"title", Str("Analyst")>>, <<"company", Str("Acme Data")>>,
                    <<"dates", Str("Jan 2016 - Mar 2019")>>>>)>>),
    List(<<MkDict(<<<<"title", Str("Engineer")>>, <<"company", Str("Initech")>>,
                    <<"dates", Str("Jun 2021 - Jun 2023")>>, <<"duration", Str("2 yrs")>>>>),
           MkDict(<<<<"title", Str("Head Chef")>>, <<"dates", Str("2020")>>>>)>>),
    List(<<Str("Engineer at Acme"), Str("Engineer at Globex"), Str("Analyst at Hooli")>>),
    List(<<MkDict(<<<<"title", Str("Barista")>>, <<"company", Str("Random Cafe")>>,
                    <<"dates", Str("Jan 2020 - Jul 2022")>>>>)>>)>>

\* skills, location and headline of a profile
ProfileOptions ==
  <<[skills |-> Absent, location |-> Absent, headline |-> Absent],
    [skills |-> List(<<Str("Python"), Str("Deep Learning")>>),
     location |-> Str("Mountain View, CA"), headline |-> Str("ML Engineer")],
    [skills |-> List(<<MkDict(<<<<"name", Str("PyTorch")>>>>), MkDict(<<<<"skillName", Str("SQL")>>>>)>>),
     location |-> Str("San Francisco, CA"), headline |-> Absent],
    [skills |-> Absent, location |-> Absent,
     headline |-> Str("Remote AI research lead, deep learning and LLM")],
    [skills |-> List(<<>>), location |-> Str("Remote"), headline |-> Str("Engineer in Palo Alto")]>>

\* the record with the four logical fields at top level
TopLevelCandidate(education, experience, profile) ==
  MkDict(<<<<"education", education>>, <<"experience", experience>>,
           <<"skills", profile.skills>>, <<"location", profile.location>>,
           <<"headline", profile.headline>>>>)

\* the same record with the four logical fields only under raw_data
RawDataCandidate(education, experience, profile) ==
  MkDict(<<<<"headline", profile.headline>>,
           <<"raw_data", MkDict(<<<<"education", education>>, <<"experience", experience>>,
                                  <<"skills", profile.skills>>, <<"location", profile.location>>>>)>>>>)

\* records with malformed fields: a null field, a field or entry of the
\* wrong type, a non-sequence experience value
MalformedCandidates ==
  <<MkDict(<<<<"education", List(<<MkDict(<<<<"school", PyInt(7)>>, <<"degree", Str("PhD")>>>>),
                                    MkDict(<<<<"school", Str("MIT")>>>>)>>)>>>>),
    MkDict(<<<<"education", List(<<MkDict(<<<<"school", NoneV>>, <<"degree", Str("PhD")>>>>),
                                    MkDict(<<<<"school", Str("MIT")>>>>)>>)>>>>),
    MkDict(<<<<"education", List(<<PyInt(3), MkDict(<<<<"school", Str("MIT")>>>>)>>)>>>>),
    MkDict(<<<<"experience", List(<<MkDict(<<<<"title", NoneV>>, <<"company", Str("OpenAI")>>>>)>>)>>>>),
    MkDict(<<<<"experience", List(<<MkDict(<<<<"title", Str("Engineer")>>, <<"description", NoneV>>>>),
                                     MkDict(<<<<"title", Str("Senior Engineer")>>>>)>>)>>>>),
    MkDict(<<<<"experience", PyInt(5)>>, <<"location", Str("Remote")>>>>),
    MkDict(<<<<"experience", NoneV>>, <<"skills", List(<<Str("Python")>>)>>>>),
    MkDict(<<<<"headline", NoneV>>, <<"skills", List(<<Str("Python")>>)>>>>),
    MkDict(<<<<"location", PyInt(94043)>>>>),
    MkDict(<<<<"skills", List(<<PyInt(1), NoneV, Str("Python")>>)>>, <<"education", NoneV>>>>),
    MkDict(<<<<"experience", List(<<MkDict(<<<<"title", PyInt(2)>>>>),
                                     MkDict(<<<<"title", Str("Lead")>>>>)>>)>>>>)>>

\* records that exercise one rule of one category scorer each
ProbeCandidates ==
  <<Dict([experience |-> List(<<Dict([title |-> Str("Senior Engineer"), dates |-> Str("Jan 2020 - Present")]),
          Dict([title |-> Str("Engineer"), dates |-> Str("Mar 2018 - Jan 2020")])>>)]),
    Dict([experience |-> List(<<Dict([title |-> Str("Engineer"), dates |-> Str("Mar 2018 - Jan 2020")]),
          Dict([title |-> Str("Senior Engineer"), dates |-> Str("Jan 2020 - Present")])>>)]),
    Dict([experience |-> List(<<Dict([title |-> Str("Senior Engineer"), dates |-> Str("2020-01 - 2023-05")]),
          Dict([title |-> Str("Engineer"), dates |-> Str("2018-03 - 2020-01")])>>)]),
    Dict([experience |-> List(<<Dict([title |-> Str("Engineer"), dates |-> Str("Mar 2018 - Jan 2020")]),
          Dict([title |-> Str("Lead Engineer")])>>)]),
    Dict([experience |-> List(<<Dict([title |-> Str("Lead Engineer"), dates |-> Str("2020")]),
          Dict([title |-> Str("Engineer"), dates |-> Str("Mar 2018 - Jan 2020")])>>)]),
    Dict([experience |-> List(<<Str("Engineer at Google")>>)]),
    Dict([experience |-> List(<<Str("Engineer at DeepMind")>>)]),
    Dict([experience |-> List(<<Str("Engineer at OpenAI")>>)]),
    Dict([experience |-> List(<<Str("Engineer at Microsoft")>>)]),
    Dict([experience |-> List(<<Str("Engineer at Meta")>>)]),
    Dict([experience |-> List(<<Str("Engineer at Apple")>>)]),
    Dict([experience |-> List(<<Str("Engineer at Amazon")>>)]),
    Dict([experience |-> List(<<Str("Engineer at Anthropic")>>)]),
    Dict([experience |-> List(<<Str("Engineer at Inflection AI")>>)]),
    Dict([experience |-> List(<<Str("Engineer at Hugging Face")>>)]),
    Dict([experience |-> List(<<Str("Engineer at Cohere")>>)]),
    Dict([experience |-> List(<<Str("Engineer at Stability AI")>>)]),
    Dict([experience |-> List(<<Str("Engineer at Midjourney")>>)]),
    Dict([experience |-> List(<<Str("Engineer at GitHub")>>)]),
    Dict([experience |-> List(<<Str("Engineer at Cursor")>>)]),
    Dict([experience |-> List(<<Str("Engineer at Replit")>>)]),
    Dict([experience |-> List(<<Str("Engineer at Databricks")>>)]),
    Dict([experience |-> List(<<Str("Engineer at Scale AI")>>)]),
    Dict([experience |-> List(<<Str("Engineer at Nvidia")>>)]),
    Dict([experience |-> List(<<Str("Engineer at Intel")>>)]),
    Dict([experience |-> List(<<Str("Engineer at IBM")>>)]),
    Dict([experience |-> List(<<Str("Engineer at Salesforce")>>)]),
    Dict([experience |-> List(<<Str("Engineer at Adobe")>>)]),
    Dict([experience |-> List(<<Str("Engineer at Twitter")>>)]),
    Dict([experience |-> List(<<Str("Engineer at LinkedIn")>>)]),
    Dict([experience |-> List(<<Str("Engineer at Snapchat")>>)]),
    Dict([experience |-> List(<<Str("Engineer at TikTok")>>)]),
    Dict([experience |-> List(<<Str("Engineer at Netflix")>>)]),
    Dict([experience |-> List(<<Str("Engineer at Uber")>>)]),
    Dict([experience |-> List(<<Str("Engineer at Lyft")>>)]),
    Dict([experience |-> List(<<Str("Engineer at Airbnb")>>)]),
    Dict([experience |-> List(<<Str("Engineer at Spotify")>>)]),
    Dict([experience |-> List(<<Str("Engineer at Pinterest")>>)]),
    Dict([experience |-> List(<<Str("Engineer at Stripe")>>)]),
    Dict([experience |-> List(<<Str("Engineer at Waymo")>>)]),
    Dict([experience |-> List(<<Str("Engineer at Tesla")>>)]),
    Dict([experience |-> List(<<Str("Engineer at Cruise")>>)]),
    Dict([experience |-> List(<<Str("Engineer at Aurora")>>)]),
    Dict([experience |-> List(<<Str("Data Scientist at Meta")>>)]),
    Dict([location |-> Str("Mountain View, CA")]),
    Dict([location |-> Str("Palo Alto")]),
    Dict([location |-> Str("San Jose, California")]),
    Dict([location |-> Str("Austin, TX")]),
    Dict([location |-> Str("Los Angeles, CA")]),
    Dict([location |-> Str("Remote")]),
    Dict([location |-> Str("Sunnyvale (remote)")]),
    Dict([headline |-> Str("ML Engineer, Mountain View")]),
    Dict([headline |-> Str("Engineer in Austin")]),
    Dict([location |-> Str(""), raw_data |-> Dict([location |-> Str("Cupertino")])]),
    Dict([experience |-> List(<<Dict([title |-> Str("Engineer"), dates |-> Str("Jan 2020 - Jan 2023")])>>)]),
    Dict([experience |-> List(<<Dict([title |-> Str("Engineer"), dates |-> Str("Jan 2020 - Jan 2023")]),
          Dict([title |-> Str("Analyst"), dates |-> Str("Jan 20xx - Jan 2021")])>>)]),
    Dict([experience |-> List(<<Dict([title |-> Str("Engineer"), dates |-> Str("Jan 2020 - Jan 2023")]),
          Dict([title |-> Str("Analyst"), dates |-> Str("Jan 2020")])>>)]),
    Dict([experience |-> List(<<Dict([title |-> Str("Engineer"), dates |-> Str("Jan 2020 - Jan 2023")]),
          Dict([title |-> Str("Analyst"), dates |-> Str("2020 - Jan 2021")])>>)]),
    Dict([experience |-> List(<<Dict([title |-> Str("Engineer"), dates |-> Str("Jan 2020 - Jan 2023")]),
          Dict([title |-> Str("Analyst"), dates |-> Str("Jan 2020 - Jan")])>>)]),
    Dict([experience |-> List(<<Dict([title |-> Str("Engineer"), dates |-> Str("Jan 2020 - Jan 2023")]),
          Dict([title |-> Str("Analyst"), dates |-> Str("Jan 2019 - Jan soon")])>>)]),
    Dict([experience |-> List(<<Dict([title |-> Str("Engineer"), dates |-> Str("Jan 2020 - Jan 2023")]),
          Dict([title |-> Str("Analyst"), dates |-> PyInt(2020)])>>)]),
    Dict([experience |-> List(<<Dict([title |-> Str("Engineer"), dates |-> Str("Jan 2020 - Jan 2023")]),
          Dict([title |-> Str("Analyst"), dates |-> List(<<Str("Jan 2020"), Str("Jan 2021")>>)])>>)]),
    Dict([experience |-> List(<<Dict([title |-> Str("Engineer"), dates |-> Str("Jan 2020 - Jan 2023")]),
          Dict([title |-> Str("Analyst"), dates |-> NoneV])>>)]),
    Dict([experience |-> List(<<Dict([title |-> Str("Analyst"), dates |-> Str("Jan 20xx - Jan 2021")]),
          Dict([title |-> Str("Engineer"), dates |-> Str("Jan 2020 - Jan 2023")]),
          Dict([title |-> Str("Intern"), dates |-> PyInt(2020)])>>)]),
    Dict([experience |-> List(<<Dict([title |-> Str("Analyst"), dates |-> Str("Jan 20xx - Jan 2021")]),
          Dict([title |-> Str("Intern"), dates |-> Str("Jan 2020")])>>)]),
    Dict([experience |-> List(<<Dict([title |-> Str("Engineer"), dates |-> Str("Jan 2020 - Jan 2023")]),
          Dict([title |-> Str("Analyst"), dates |-> Str("Jan 2023 - Jul 2023")])>>)])>>

\* records that exercise the experience/skill-match scorer
MatchCandidates ==
  <<Dict([skills |-> List(<<Str("Python"), Str("PyTorch")>>), headline |-> Str("ML Engineer")]),
    Dict([skills |-> List(<<Str("Python"), Str("PyTorch")>>), headline |-> Str("AI research lead, deep learning and NLP")]),
    Dict([skills |-> List(<<Str("Python")>>), headline |-> Str("AI research lead, deep learning and NLP")]),
    Dict([skills |-> List(<<Str("Java")>>), headline |-> Str("AI research lead, deep learning and NLP")]),
    Dict([skills |-> List(<<Str("Python")>>), headline |-> Str("NLP research")]),
    Dict([skills |-> List(<<Str("Python")>>), headline |-> Str("NLP research with PyTorch")]),
    Dict([skills |-> List(<<Str("Python")>>), experience |-> List(<<Dict([title |-> Str("ML Engineer"), description |-> Str("pytorch and tensorflow")])>>)]),
    Dict([headline |-> Str("AI research lead, deep learning and NLP")])>>

\* requirement records carrying required_skills, the key
\* _score_experience_match reads, as a caller assigns them to
\* scorer.job_requirements
AssignedRequirements ==
  <<Dict([required_skills |-> List(<<Str("python"), Str("pytorch")>>)]),
    Dict([required_skills |-> List(<<Str("python"), Str("sql"), Str("spark")>>)]),
    Dict([required_skills |-> List(<<Str("python"), Str("sql"), Str("spark"), Str("scala")>>)])>>

\* a weight table as a deployment may set it in config.py: education 0.30
EditedWeights ==
  [education |-> 30, career_trajectory |-> 20, company_relevance |-> 15,
   experience_match |-> 25, location_match |-> 10, tenure |-> 10]

StartClock == [year |-> 2024, month |-> 12, day |-> 15]

\* how many months the clock may advance
MaxTicks == 2

(***************************************************************************)
(* State                                                                   *)
(***************************************************************************)
VARIABLES
  job_description,   \* CandidateScorer.job_description
  job_requirements,  \* CandidateScorer.job_requirements
  weights,           \* the weight table config.py holds
  candidate,         \* the candidate record handed to score_candidate
  clock,             \* the date datetime.now() returns
  result,            \* what the last score_candidate call returned
  previous,          \* what the call before it returned
  called_at,         \* the clock value at the last call
  batch,             \* the candidate records of a batch scored with the one scorer
  workers,           \* per batch record, the position and locals of its score_candidate call
  keywords,          \* what extract_keywords_from_job returned for the job description
  agent              \* the LinkedInAgent: its flags, clock, inputs and what its calls returned

vars ==
  <<job_description, job_requirements, weights, candidate, clock, result, previous, called_at,
    batch, workers, keywords, agent>>

MonthIndex(d) == 12 * d.year + d.month

\* CandidateScorer(job_description) built, no call made yet
InitScorer ==
  /\ \E j \in 1..Len(JobDescriptions) : job_description = JobDescriptions[j]
  /\ job_requirements = ParseJobRequirements(job_description)
  /\ clock = StartClock
  /\ result = NoneV
  /\ previous = NoneV
  /\ called_at = NoneV
  /\ keywords = NoneV

\* no batch is being scored
NoBatch == batch = <<>> /\ workers = <<>>

\* no LinkedInAgent was constructed
NoAgent == agent = NoneV

Init ==
  /\ InitScorer
  /\ NoBatch
  /\ NoAgent
  /\ weights = SCORING_WEIGHTS
  /\ \E e \in 1..Len(EducationOptions), x \in 1..Len(ExperienceOptions),
        p \in 1..Len(ProfileOptions), raw \in BOOLEAN :
       candidate = IF raw
                     THEN RawDataCandidate(EducationOptions[e], ExperienceOptions[x], ProfileOptions[p])
                     ELSE TopLevelCandidate(EducationOptions[e], ExperienceOptions[x], ProfileOptions[p])

\* scorer.score_candidate(candidate)
ScoreCall ==
  /\ result' = ScoreCandidate(candidate, job_requirements, weights, clock)
  /\ previous' = result
  /\ called_at' = clock
  /\ candidate' = CandidateAfterScoring(candidate, clock)
  /\ UNCHANGED <<job_description, job_requirements, weights, clock, batch, workers, keywords, agent>>

\* a month passes
Tick ==
  /\ MonthIndex(clock) < MonthIndex(StartClock) + MaxTicks
  /\ clock' = IF clock.month = 12
                THEN [clock EXCEPT !.year = @ + 1, !.month = 1]
                ELSE [clock EXCEPT !.month = @ + 1]
  /\ UNCHANGED <<job_description, job_requirements, weights, candidate, result, previous,
                 called_at, batch, workers, keywords, agent>>

Next == ScoreCall \/ Tick

Spec == Init /\ [][Next]_vars

\* records with malformed fields
InitMalformed ==
  /\ InitScorer
  /\ NoBatch
  /\ NoAgent
  /\ weights = SCORING_WEIGHTS
  /\ \E m \in 1..Len(MalformedCandidates) : candidate = MalformedCandidates[m]

SpecMalformed == InitMalformed /\ [][Next]_vars

\* config.py holding either the shipped or an edited weight table
InitConfig ==
  /\ InitScorer
  /\ NoBatch
  /\ NoAgent
  /\ \E w \in 1..2 : weights = <<SCORING_WEIGHTS, EditedWeights>>[w]
  /\ \E e \in 1..Len(EducationOptions), x \in 1..Len(ExperienceOptions) :
       candidate = TopLevelCandidate(EducationOptions[e], ExperienceOptions[x], ProfileOptions[2])

SpecConfig == InitConfig /\ [][Next]_vars

\* records that exercise single rules of the category scorers
InitProbe ==
  /\ InitScorer
  /\ NoBatch
  /\ NoAgent
  /\ weights = SCORING_WEIGHTS
  /\ \E p \in 1..Len(ProbeCandidates) : candidate = ProbeCandidates[p]

SpecProbe == InitProbe /\ [][Next]_vars

\* the skill-match scorer over requirement records with and without
\* required_skills: the extracted record, or one assigned to the scorer
InitMatch ==
  /\ InitScorer
  /\ NoBatch
  /\ NoAgent
  /\ weights = SCORING_WEIGHTS
  /\ \E p \in 1..Len(MatchCandidates) : candidate = MatchCandidates[p]

\* scorer.job_requirements = record
AssignRequirements ==
  /\ result.t = "none"
  /\ \E r \in 1..Len(AssignedRequirements) : job_requirements' = AssignedRequirements[r]
  /\ UNCHANGED <<job_description, weights, candidate, clock, result, previous, called_at,
                 batch, workers, keywords, agent>>

NextMatch == ScoreCall \/ Tick \/ AssignRequirements

SpecMatch == InitMatch /\ [][NextMatch]_vars

(***************************************************************************)
(* The requirement extractor on its own                                    *)
(***************************************************************************)
\* first lines of a job description
TitleLines ==
  <<"ML Engineer: Windsurf",
    "Data Analyst, Remote",
    "Barista",
    "Line Cook ",
    "\n  Staff Engineer : Search, Ads",
    "C++ Developer, Games",
    "">>

\* what follows the first line
BodyBlocks ==
  <<"",
    "\nRequirements:\n- python\n- pytorch",
    "\n- intro\nSkills needed:\n@ sql\n  - sql\nBenefits: many\n- lunch",
    "\nSkills: sql, statistics\n\nEducation: Bachelor degree.",
    "\nWhat you'll need:\n-\n- Go\nabout us: nice\n- rust",
    "\n- python\n- java">>

\* the end of a job description
TailBlocks ==
  <<"",
    "\nLocation: Mountain View.",
    "\nQualifications:\n- python",
    "\nWe use python, python and sql.">>

\* a job description naming 16 technical terms
KeywordHeavy ==
  "Stack: go php vue aws gcp sql nlp api git rest ruby rust node java react keras"

\* the job descriptions handed to the extractor
ExtractInputs ==
  {TitleLines[a] \o BodyBlocks[b] \o TailBlocks[c] :
     a \in 1..Len(TitleLines), b \in 1..Len(BodyBlocks), c \in 1..Len(TailBlocks)}
    \cup {KeywordHeavy}

\* a job description is handed over; nothing is extracted yet
InitExtract ==
  /\ job_description \in ExtractInputs
  /\ job_requirements = NoneV
  /\ keywords = NoneV
  /\ weights = SCORING_WEIGHTS
  /\ candidate = EmptyDict
  /\ clock = StartClock
  /\ result = NoneV
  /\ previous = NoneV
  /\ called_at = NoneV
  /\ NoBatch
  /\ NoAgent

\* job_requirements = parse_job_requirements(job_description)
ParseCall ==
  /\ job_requirements.t = "none"
  /\ job_requirements' = ParseJobRequirements(job_description)
  /\ UNCHANGED <<job_description, weights, candidate, clock, result, previous, called_at,
                 batch, workers, keywords, agent>>

\* keywords = extract_keywords_from_job(job_description)
KeywordsCall ==
  /\ keywords.t = "none"
  /\ \E kept \in ExtractKeywordsFromJob(job_description) :
       keywords' = [t |-> "keywords", v |-> kept]
  /\ UNCHANGED <<job_description, job_requirements, weights, candidate, clock, result, previous,
                 called_at, batch, workers, agent>>

NextExtract == ParseCall \/ KeywordsCall

SpecExtract == InitExtract /\ [][NextExtract]_vars

(***************************************************************************)
(* A batch scored with one scorer, the calls interleaved                   *)
(***************************************************************************)
\* the records a batch is drawn from
BatchCandidates ==
  <<EmptyDict,
    TopLevelCandidate(EducationOptions[2], ExperienceOptions[3], ProfileOptions[2]),
    RawDataCandidate(EducationOptions[4], ExperienceOptions[5], ProfileOptions[3])>>

\* one category scorer of lines 26-31
CategoryScore(c, cand, requirements, now) ==
  CASE c = "education" -> ScoreEducation(cand)
    [] c = "career_trajectory" -> ScoreCareerTrajectory(cand, now)
    [] c = "company_relevance" -> ScoreCompanyRelevance(cand)
    [] c = "experience_match" -> ScoreExperienceMatch(cand, requirements)
    [] c = "location_match" -> ScoreLocationMatch(cand)
    [] c = "tenure" -> ScoreTenure(cand, now)

\* the categories whose scorer calls datetime.now()
ClockReaders == {"career_trajectory", "tenure"}

\* a call that has not started: pc 0, no local yet
IdleWorker ==
  [pc |-> 0, scores |-> EmptyBreakdown, at |-> [c \in {} |-> StartClock], result |-> NoneV]

\* a variant that keeps the category scores on the scorer, shared by the
\* calls in progress, instead of in a local of the call
RecordScoreShared(ws, i, c, v, now) ==
  [j \in DOMAIN ws |->
     IF j = i
       THEN [ws[j] EXCEPT !.pc = @ + 1, !.scores = (c :> v) @@ @,
                           !.at = IF c \in ClockReaders THEN (c :> now) @@ @ ELSE @]
       ELSE IF ws[j].pc \in 1..7 THEN [ws[j] EXCEPT !.scores = (c :> v) @@ @] ELSE ws[j]]

\* lines 26-31: a category score is bound to a local of the call
RecordScore(ws, i, c, v, now) ==
  [ws EXCEPT ![i].pc = @ + 1, ![i].scores = (c :> v) @@ @,
             ![i].at = IF c \in ClockReaders THEN (c :> now) @@ @ ELSE @]

InitBatch ==
  /\ InitScorer
  /\ NoAgent
  /\ weights = SCORING_WEIGHTS
  /\ candidate = EmptyDict
  /\ \E a \in 1..Len(BatchCandidates), b \in 1..Len(BatchCandidates) :
       batch = <<BatchCandidates[a], BatchCandidates[b]>>
  /\ workers = [i \in DOMAIN batch |-> IdleWorker]

\* lines 22-23: the call for batch record i starts; an empty record returns
\* at once
BeginScore(i) ==
  /\ workers[i].pc = 0
  /\ workers' = IF ~Truthy(batch[i])
                  THEN [workers EXCEPT ![i].pc = 8,
                          ![i].result = [t |-> "result", total |-> 0, breakdown |-> EmptyBreakdown]]
                  ELSE [workers EXCEPT ![i].pc = 1]
  /\ UNCHANGED <<job_description, job_requirements, weights, candidate, clock, result, previous,
                 called_at, batch, keywords, agent>>

\* lines 26-31: the call for batch record i runs its next category scorer;
\* an exception ends the call
ScoreStep(i) ==
  /\ workers[i].pc \in 1..Len(Categories)
  /\ LET c == Categories[workers[i].pc]
         score == CategoryScore(c, batch[i], job_requirements, clock)
     IN /\ workers' = IF IsRaise(score)
                         THEN [workers EXCEPT ![i].pc = 8, ![i].result = RaiseV]
                         ELSE RecordScore(workers, i, c, score.v, clock)
        /\ batch' = IF c = "career_trajectory"
                       THEN [batch EXCEPT ![i] = CandidateAfterScoring(batch[i], clock)]
                       ELSE batch
  /\ UNCHANGED <<job_description, job_requirements, weights, candidate, clock, result, previous,
                 called_at, keywords, agent>>

\* lines 34-49: the call for batch record i compiles and returns its result
FinishScore(i) ==
  /\ workers[i].pc = Len(Categories) + 1
  /\ workers' = [workers EXCEPT ![i].pc = 8, ![i].result = WithTotal(workers[i].scores, weights)]
  /\ UNCHANGED <<job_description, job_requirements, weights, candidate, clock, result, previous,
                 called_at, batch, keywords, agent>>

NextBatch ==
  \/ \E i \in DOMAIN batch : BeginScore(i)
  \/ \E i \in DOMAIN batch : ScoreStep(i)
  \/ \E i \in DOMAIN batch : FinishScore(i)
  \/ Tick

SpecBatch == InitBatch /\ [][NextBatch]_vars

(***************************************************************************)
(* Properties                                                              *)
(***************************************************************************)
CategorySet == {Categories[i] : i \in 1..Len(Categories)}

\* a call on the current candidate has returned a ScoreResult
Returned == result.t = "result"

\* a call has been made: it returned or it raised
Called == result.t \in {"result", "raise"}

\* C1: for every non-empty candidate record score_candidate returns a
\* breakdown whose six category scores each lie in [0,10] and a total in
\* [0,10] (0..1000 hundredths)
C1_ScoresInRange ==
  (Called /\ Truthy(candidate)) =>
    /\ Returned
    /\ DOMAIN result.breakdown = CategorySet
    /\ \A c \in CategorySet : result.breakdown[c] \in 0..10
    /\ result.total \in 0..1000

\* a non-empty record was scored with one category at its lowest, 0, and
\* another at its highest, 10
C1_Witness ==
  /\ Returned /\ Truthy(candidate)
  /\ result.breakdown.education = 0
  /\ result.breakdown.company_relevance = 10

\* the category scores of the aggregator example
ExampleBreakdown ==
  [education |-> 8, career_trajectory |-> 6, company_relevance |-> 7,
   experience_match |-> 9, location_match |-> 10, tenure |-> 5]

\* the total of a returned result is the weighted sum of its breakdown with
\* the weights 0.20, 0.20, 0.15, 0.25, 0.10, 0.10
TotalIsWeightedSum ==
  (Returned /\ Truthy(candidate)) =>
    result.total = 20 * result.breakdown.education
                     + 20 * result.breakdown.career_trajectory
                     + 15 * result.breakdown.company_relevance
                     + 25 * result.breakdown.experience_match
                     + 10 * result.breakdown.location_match
                     + 10 * result.breakdown.tenure

\* C2 as stated: the total equals the sum over the six categories of
\* weight x score, and the category scores 8, 6, 7, 9, 10, 5 give 7.55
C2_AsStated ==
  /\ calculate_weighted_average(ExampleBreakdown, weights) = 755
  /\ TotalIsWeightedSum

\* C2, amended: the total equals the sum over the six categories of
\* weight x score, and the category scores 8, 6, 7, 9, 10, 5 give 7.60
C2_WeightedTotal ==
  /\ calculate_weighted_average(ExampleBreakdown, weights) = 760
  /\ TotalIsWeightedSum

\* a returned result whose category scores differ, so the weights matter
C2_Witness ==
  /\ Returned /\ Truthy(candidate)
  /\ result.breakdown.education = 10
  /\ result.breakdown.experience_match = 5
  /\ result.breakdown.location_match = 8

\* C3: the empty record gives exactly total 0 and an empty breakdown, and
\* it is the only input with an empty breakdown: a non-empty record gives
\* all six category keys
C3_EmptyRecordOnly ==
  Called =>
    /\ Returned
    /\ ~Truthy(candidate) => (result.total = 0 /\ DOMAIN result.breakdown = {})
    /\ Truthy(candidate) => DOMAIN result.breakdown = CategorySet

\* the empty record was scored
C3_Witness == Returned /\ ~Truthy(candidate) /\ DOMAIN result.breakdown = {}

\* C4: score_candidate never raises, whatever malformed fields the record
\* carries
C4_NeverRaises == result.t # "raise"

\* an education entry names a school
NamesSchool(edu) ==
  \/ (IsDict(edu) /\ Truthy(SchoolName(edu)))
  \/ (IsStr(edu) /\ edu.v # "")

\* the data a category reads is missing or empty in the record
EducationMissing(c) ==
  LET education == Resolve(c, "education", List(<<>>))
  IN ~Truthy(education) \/ \A i \in 1..Len(education.v) : ~NamesSchool(education.v[i])

ExperienceMissing(c) == ~Truthy(Resolve(c, "experience", List(<<>>)))

SkillsMissing(c) ==
  /\ ~Truthy(Resolve(c, "skills", List(<<>>)))
  /\ ExperienceMissing(c)
  /\ ~Truthy(Get(c, "headline", Str("")))

LocationMissing(c) ==
  ~Truthy(Resolve(c, "location", Str(""))) /\ ~Truthy(Get(c, "headline", Str("")))

\* C5: for a non-empty record, a category whose data is missing or empty
\* (absent at top level and under raw_data, or entries without the
\* sub-fields the category reads) scores its default 5
C5_MissingDataDefault ==
  (Returned /\ Truthy(candidate)) =>
    /\ EducationMissing(candidate) => result.breakdown.education = 5
    /\ ExperienceMissing(candidate) =>
         /\ result.breakdown.career_trajectory = 5
         /\ result.breakdown.company_relevance = 5
         /\ result.breakdown.tenure = 5
    /\ SkillsMissing(candidate) => result.breakdown.experience_match = 5
    /\ LocationMissing(candidate) => result.breakdown.location_match = 5

\* the skills the requirement extractor found in the job description
ExtractedSkills == Get(job_requirements, "skills", List(<<>>)).v

\* number of extracted skills matching some candidate skill
MatchingExtracted(skill_list) ==
  Cardinality({i \in 1..Len(ExtractedSkills) :
                 FirstMatch(ExtractedSkills[i], skill_list) <= Len(skill_list)})

\* C6: the experience/skill-match score follows the share of the job's
\* extracted required skills that match a candidate skill: >= 0.9 gives 10,
\* >= 0.7 gives 9, >= 0.5 gives 8, >= 0.3 gives 7, a match gives 6, else 5
\* (stated for explicit str skills and where the keyword boost does not apply)
C6_SkillShareScore ==
  LET skills == Resolve(candidate, "skills", List(<<>>))
      text == ExperienceText(candidate)
      headline == Get(candidate, "headline", Str(""))
  IN (/\ Returned /\ Truthy(candidate) /\ Truthy(skills)
      /\ \A i \in 1..Len(skills.v) : IsStr(skills.v[i])
      /\ CountIn(ml_ai_keywords, Lower(headline.v), Lower(text.v)) < 3) =>
       result.breakdown.experience_match =
         MatchScore(MatchingExtracted(skills.v), Len(ExtractedSkills), 5)

\* the sum of a weight table, in hundredths
WeightTotal(w) == WeightedSum([c \in CategorySet |-> 1], w, 1)

\* C7: a weight table that does not sum to 1.0 fails configuration load, so
\* no candidate is scored with one
C7_WeightsValidated == Returned => WeightTotal(weights) = 100

\* C8: scoring the same unmutated record twice with the same scorer gives
\* identical ScoreResults, also at different clock times
C8_Idempotent == (previous.t = "result" /\ Returned) => previous = result

\* C9: score_candidate leaves the candidate record, its lists and their
\* order, its raw_data bag and the scorer's job_requirements unchanged
C9_RecordUnchanged ==
  [][candidate' = candidate /\ job_requirements' = job_requirements]_vars

\* a record whose dated experience entries are out of chronological order
\* was scored
C9_Witness ==
  /\ Returned
  /\ Resolve(candidate, "experience", List(<<>>)) = ExperienceOptions[5]

\* the record with its education, experience, skills and location moved
\* under raw_data
UnderRawData(c) ==
  LET fields == {"education", "experience", "skills", "location"} \cap DOMAIN c.v
      rest == DOMAIN c.v \ fields
  IN Dict([k \in rest \cup {"raw_data"} |->
             IF k = "raw_data" THEN Dict([f \in fields |-> c.v[f]]) ELSE c.v[k]])

\* C10: a candidate carrying a field only under raw_data gets the same
\* ScoreResult as the candidate carrying the identical field at top level
C10_RawDataEquivalent ==
  (Returned /\ called_at = clock /\ Truthy(candidate) /\ ~HasKey(candidate, "raw_data")) =>
    result = ScoreCandidate(UnderRawData(candidate), job_requirements, weights, clock)

\* largest element of a non-empty set of numbers
MaxOf(S) == CHOOSE m \in S : \A n \in S : n <= m

\* the degree score an education entry contributes: 10, 8 or 6 by the
\* degree term found in its lowercased degree field, 0 when none is
EntryDegreeScore(edu) ==
  IF IsStr(DegreeField(edu)) THEN DegreeScore(Lower(DegreeField(edu).v)) ELSE 0

\* the school score an education entry contributes: 10 for an elite
\* university, 6 for any other named school, 0 when it names none
EntrySchoolScore(edu) ==
  IF ~NamesSchool(edu) THEN 0
  ELSE IF AnyIn(LowerUniversities, Lower(SchoolName(edu).v)) THEN 10 ELSE 6

\* C11: the education score is max(degree, school, progression) across all
\* entries, capped at 10; every entry contributes its degree score whether
\* or not it names a school, and progression is 8 from two entries on
C11_EducationMax ==
  LET education == Resolve(candidate, "education", List(<<>>))
  IN (Returned /\ Truthy(candidate) /\ Truthy(education)) =>
       result.breakdown.education =
         Min(10, MaxOf({EntryDegreeScore(education.v[i]) : i \in 1..Len(education.v)}
                         \cup {EntrySchoolScore(education.v[i]) : i \in 1..Len(education.v)}
                         \cup {IF Len(education.v) >= 2 THEN 8 ELSE 0}))

\* growth indicators found over the titles in the order the scorer walks them
GrowthIndicators(experience) ==
  GrowthLoop(Items(SortedExperience(experience, clock)), 1,
             [previous_title |-> NoneV, growth_indicators |-> 0, raised |-> FALSE]).growth_indicators

\* C12: the career-trajectory score is 8 from two growth indicators on, 7
\* for exactly one, otherwise 6 when the candidate has at least three
\* experience entries, structured or bare-string, otherwise 5
C12_CareerTrajectory ==
  LET experience == Resolve(candidate, "experience", List(<<>>))
  IN (Returned /\ called_at = clock /\ Truthy(candidate) /\ Truthy(experience)) =>
       result.breakdown.career_trajectory =
         IF GrowthIndicators(experience) >= 2 THEN 8
         ELSE IF GrowthIndicators(experience) = 1 THEN 7
         ELSE IF Len(experience.v) >= 3 THEN 6
         ELSE 5

\* the company score of one experience entry: 10 when a top-ML-company name
\* occurs in its lowercased company name, otherwise 8 when a
\* relevant-industry keyword does, otherwise 0
EntryCompanyScore(exp) ==
  IF ~Truthy(CompanyName(exp)) THEN 0
  ELSE IF \E i \in 1..Len(TOP_ML_COMPANIES) :
            Contains(LowerCompanies[i], Lower(CompanyName(exp).v)) THEN 10
  ELSE IF \E i \in 1..Len(relevant_keywords) :
            Contains(relevant_keywords[i], Lower(CompanyName(exp).v)) THEN 8
  ELSE 0

\* C13: the company-relevance score is the maximum over all experience
\* entries of the entry's company score (10 top ML company, else 8 relevant
\* keyword), and 5 when entries exist but none matches
C13_CompanyMax ==
  LET experience == Resolve(candidate, "experience", List(<<>>))
      best == MaxOf({0} \cup {EntryCompanyScore(experience.v[i]) : i \in 1..Len(experience.v)})
  IN (Returned /\ Truthy(candidate) /\ Truthy(experience)) =>
       result.breakdown.company_relevance = IF best > 0 THEN best ELSE 5

\* a record whose first entry matches nothing and whose second entry matches
\* a relevant-industry keyword was scored 8
C13_Witness ==
  /\ Returned
  /\ Len(Resolve(candidate, "experience", List(<<>>)).v) = 2
  /\ EntryCompanyScore(Resolve(candidate, "experience", List(<<>>)).v[1]) = 0
  /\ result.breakdown.company_relevance = 8

\* the record gives no location: none at top level or under raw_data, and a
\* headline naming neither remote work nor a known city
NoLocation(c) ==
  /\ ~Truthy(Resolve(c, "location", Str("")))
  /\ ~Contains("remote", Lower(Get(c, "headline", Str("")).v))
  /\ \A i \in 1..Len(KnownCities) :
       ~Contains(Lower(KnownCities[i]), Lower(Get(c, "headline", Str("")).v))

\* C14: the location-match score is 10 whenever the resolved location
\* contains the target city, 8 when it contains a nearby city and not the
\* target city, and 5 when the record gives no location
C14_LocationMatch ==
  LET location == Resolve(candidate, "location", Str(""))
  IN (Returned /\ Truthy(candidate)) =>
       /\ (Truthy(location) /\ Contains("mountain view", Lower(location.v)))
            => result.breakdown.location_match = 10
       /\ (/\ Truthy(location) /\ ~Contains("mountain view", Lower(location.v))
           /\ \E i \in 1..Len(NEARBY_LOCATIONS) :
                Contains(Lower(NEARBY_LOCATIONS[i]), Lower(location.v)))
            => result.breakdown.location_match = 8
       /\ NoLocation(candidate) => result.breakdown.location_match = 5

\* a record located in a nearby city of the same state was scored 8
C14_Witness ==
  /\ Returned /\ Truthy(candidate)
  /\ Resolve(candidate, "location", Str("")) = Str("San Francisco, CA")
  /\ result.breakdown.location_match = 8

\* an experience entry without its duration field
WithoutDuration(exp) ==
  IF IsDict(exp) THEN Dict([k \in DOMAIN exp.v \ {"duration"} |-> exp.v[k]]) ELSE exp

\* days and count over every entry with a parseable date range, whatever
\* other fields the entry carries
DatedTenure(experience) ==
  TenureLoop([i \in 1..Len(experience.v) |-> WithoutDuration(experience.v[i])], 1, clock,
             [total_days |-> 0, job_count |-> 0])

\* C15: the tenure score follows the average duration over every experience
\* entry with a parseable date range, whatever other fields such as duration
\* the entry carries: >= 3 years 10, >= 2 gives 9, >= 1.5 gives 8, >= 1
\* gives 7, otherwise 5
C15_TenureAverage ==
  LET experience == Resolve(candidate, "experience", List(<<>>))
  IN (Returned /\ called_at = clock /\ Truthy(candidate) /\ Truthy(experience)) =>
       result.breakdown.tenure =
         TenureScore(DatedTenure(experience).total_days, DatedTenure(experience).job_count)

\* the time a clock-reading scorer ran at, if it ran
ClockAt(at, c) == IF c \in DOMAIN at THEN at[c] ELSE StartClock

\* the result of scoring the record alone with the scorer as it was built,
\* its clock-reading scorers run at the given times
ScoredAlone(cand, requirements, at) ==
  IF ~Truthy(cand) THEN [t |-> "result", total |-> 0, breakdown |-> EmptyBreakdown]
  ELSE CompileResult(
         [education |-> ScoreEducation(cand),
          career_trajectory |-> ScoreCareerTrajectory(cand, ClockAt(at, "career_trajectory")),
          company_relevance |-> ScoreCompanyRelevance(cand),
          experience_match |-> ScoreExperienceMatch(cand, requirements),
          location_match |-> ScoreLocationMatch(cand),
          tenure |-> ScoreTenure(cand, ClockAt(at, "tenure"))],
         SCORING_WEIGHTS)

\* every finished call of the batch returned what scoring its record alone
\* returns
ResultsAsAlone ==
  \A i \in DOMAIN batch :
    workers[i].pc = 8 => workers[i].result = ScoredAlone(batch[i], job_requirements, workers[i].at)

\* C16: in a batch scored with one scorer, every record gets the result it
\* gets when scored alone, whatever the order or interleaving of the
\* calls, and no step of a call writes a scorer field, the weight table or
\* a batch record
C16_BatchIndependent ==
  /\ []ResultsAsAlone
  /\ [][/\ job_description' = job_description
        /\ job_requirements' = job_requirements
        /\ weights' = weights
        /\ batch' = batch]_vars

\* two non-empty records were scored with their calls interleaved: the
\* second call ran its career scorer a month after the first call ran its
\* own and a month before the first call ran its tenure scorer
C16_Witness ==
  /\ Len(batch) = 2
  /\ workers[1].pc = 8 /\ workers[2].pc = 8
  /\ Truthy(batch[1]) /\ Truthy(batch[2])
  /\ workers[1].result.t = "result" /\ workers[2].result.t = "result"
  /\ workers[1].result # workers[2].result
  /\ MonthIndex(workers[1].at["career_trajectory"]) < MonthIndex(workers[2].at["career_trajectory"])
  /\ MonthIndex(workers[2].at["career_trajectory"]) < MonthIndex(workers[1].at["tenure"])

\* the requirement record was extracted
Extracted == job_requirements.t = "dict"

\* the first line of the text that is not blank, "" when every line is
FirstNonEmptyLine(text) ==
  LET lines == Split(text, "\n")
      filled == {i \in 1..Len(lines) : Strip(lines[i]) # ""}
  IN IF filled = {} THEN ""
     ELSE lines[CHOOSE i \in filled : \A j \in filled : i <= j]

\* the text before the first ':' of the line, else before its first ',',
\* else the whole line
TitlePart(line) ==
  IF Contains(":", line) THEN Split(line, ":")[1]
  ELSE IF Contains(",", line) THEN Split(line, ",")[1]
  ELSE line

\* C17: the extracted title is the part of the first non-empty line before
\* its first ':', else before its first ',', else the whole line, without
\* leading or trailing whitespace
C17_Title ==
  Extracted =>
    job_requirements.v.title.v = Strip(TitlePart(FirstNonEmptyLine(job_description)))

\* the line starts with '-' or the bullet character
IsBulletLine(line) == StartsWith(line, "-") \/ StartsWith(line, Bullet)

\* a capitalized line containing ':' that is no header
EndsRequirements(line) ==
  line # "" /\ IsUpperChar(Char(line, 1)) /\ Contains(":", line) /\ ~IsHeader(line)

\* line i lies in requirements mode: a header precedes it and no line
\* between that header and line i ends the mode
InRequirementsMode(lines, i) ==
  \E h \in 1..(i - 1) :
    /\ IsHeader(Strip(lines[h]))
    /\ \A k \in (h + 1)..(i - 1) : ~EndsRequirements(Strip(lines[k]))

\* the text of a bullet line after its marker
BulletText(line) == Strip(LStripSet(line, {"-", Bullet}))

\* the bullet lines in requirements mode, in order, stripped of the marker
BulletsInMode(text) ==
  LET lines == Split(text, "\n")
  IN SelectSeq([i \in 1..Len(lines) |->
                  IF IsBulletLine(Strip(lines[i])) /\ InRequirementsMode(lines, i)
                    THEN <<BulletText(Strip(lines[i]))>> ELSE <<>>],
               LAMBDA e : e # <<>>)

\* the skills of the requirement record, as strings
ExtractedSkillTexts ==
  [i \in 1..Len(job_requirements.v.skills.v) |-> <<job_requirements.v.skills.v[i].v>>]

\* C18 as stated: every bullet line in requirements mode is collected, a
\* bare marker included, and the block fallback is used only when none is
C18_AsStated ==
  Extracted =>
    ExtractedSkillTexts =
      IF BulletsInMode(job_description) # <<>> THEN BulletsInMode(job_description)
      ELSE [i \in 1..Len(BlockSkills(job_description)) |-> <<BlockSkills(job_description)[i]>>]

\* the bullet lines in requirements mode that carry text after the marker
TextBulletsInMode(text) == SelectSeq(BulletsInMode(text), LAMBDA e : e # <<"">>)

\* C18: a line is collected as a skill exactly when it starts with '-' or
\* the bullet character, carries text after the marker and lies in
\* requirements mode (entered at a header line, left at the next capitalized
\* non-header line containing ':'); bullets before any header or after the
\* mode has ended are not collected, and the block fallback is used only
\* when the scan collected nothing
C18_ScanMode ==
  Extracted =>
    ExtractedSkillTexts =
      IF TextBulletsInMode(job_description) # <<>> THEN TextBulletsInMode(job_description)
      ELSE [i \in 1..Len(BlockSkills(job_description)) |-> <<BlockSkills(job_description)[i]>>]

\* a description with a bullet before the header, two bullets in the
\* requirements section and a bullet after the section ended was scanned:
\* only the two were collected
C18_Witness ==
  /\ Extracted
  /\ Contains(BodyBlocks[3], job_description)
  /\ BodyBlocks[3] # ""
  /\ ExtractedSkillTexts = <<<<"sql">>, <<"sql">>>>

\* no string occurs twice in the sequence
NoDuplicates(seq) == \A i \in 1..Len(seq) : \A j \in 1..Len(seq) : i < j => seq[i] # seq[j]

\* C19: the requirement record holds the required skills under the name
\* required_skills, without duplicates, in the order of their first
\* occurrence in the job description
C19_RequiredSkills ==
  Extracted =>
    /\ HasKey(job_requirements, "required_skills")
    /\ NoDuplicates(Get(job_requirements, "required_skills", List(<<>>)).v)
    /\ NoDuplicates(ExtractedSkillTexts)

\* the keywords were extracted
KeywordsExtracted == keywords.t = "keywords"

\* the vocabulary terms that are a substring of the lowercased text
TermsInText(text) ==
  {technical_terms[k] :
     k \in {n \in 1..Len(technical_terms) : Contains(technical_terms[n], Lower(text))}}

\* C20: the keyword set has at most 15 elements, contains every
\* vocabulary term that is a substring of the lowercased job description,
\* and is the only set the extractor can return for that description
C20_Keywords ==
  KeywordsExtracted =>
    /\ Cardinality(keywords.v) <= 15
    /\ TermsInText(job_description) \subseteq keywords.v
    /\ ExtractKeywordsFromJob(job_description) = {keywords.v}

\* the month count of a start date written "Mon YYYY" or "YYYY-MM", 0 when
\* the text is neither
StartMonth(text) ==
  LET parts == SplitWs(text)
  IN IF Len(text) = 7 /\ Char(text, 5) = "-" /\ YearOf(SubSeq(text, 1, 4)) > 0
          /\ YearOf(SubSeq(text, 6, 7)) \in 1..12
       THEN 12 * YearOf(SubSeq(text, 1, 4)) + YearOf(SubSeq(text, 6, 7))
     ELSE IF Len(parts) = 2 /\ YearOf(parts[2]) > 0
               /\ \E m \in 1..12 : MonthNames[m] = SubSeq(Lower(parts[1]), 1, 3)
       THEN 12 * YearOf(parts[2]) + MonthOf(parts[1])
     ELSE 0

\* the start month of an experience entry that carries a "Start - End"
\* dates string, 0 when it carries none or the start cannot be parsed
EntryStart(exp) ==
  IF IsDict(exp) /\ HasKey(exp, "dates") /\ IsStr(Get(exp, "dates", NoneV))
       /\ Len(Split(Get(exp, "dates", NoneV).v, " - ")) >= 2
    THEN StartMonth(Split(Get(exp, "dates", NoneV).v, " - ")[1])
    ELSE 0

RECURSIVE Chronological(_, _)
\* the first n entries ordered by start month, earliest first, entries of
\* the same month in arrival order
Chronological(entries, n) ==
  IF n = 0 THEN <<>>
  ELSE LET before == Chronological(entries, n - 1)
           later == {k \in 1..Len(before) : EntryStart(before[k]) > EntryStart(entries[n])}
           at == IF later = {} THEN Len(before) + 1 ELSE CHOOSE k \in later : \A j \in later : k <= j
       IN SubSeq(before, 1, at - 1) \o <<entries[n]>> \o SubSeq(before, at, Len(before))

\* the order the claim has the titles scanned in: chronological when every
\* entry has a start date, the arrival order otherwise
ScanOrder(experience) ==
  IF \A i \in 1..Len(experience.v) : EntryStart(experience.v[i]) > 0
    THEN Chronological(experience.v, Len(experience.v))
    ELSE experience.v

\* C21: the career-trajectory score is the one the growth scan gives over
\* the entries in chronological order of their start dates when every entry
\* is dated, and over the entries in arrival order when a date cannot be
\* parsed
C21_ChronologicalScan ==
  LET experience == Resolve(candidate, "experience", List(<<>>))
  IN (Returned /\ Truthy(candidate) /\ Truthy(experience)
        /\ \A i \in 1..Len(experience.v) : IsDict(experience.v[i])) =>
       result.breakdown.career_trajectory =
         LET growth == GrowthLoop(ScanOrder(experience), 1,
                         [previous_title |-> NoneV, growth_indicators |-> 0,
                          raised |-> FALSE]).growth_indicators
         IN IF growth >= 2 THEN 8
            ELSE IF growth = 1 THEN 7
            ELSE IF Len(experience.v) >= 3 THEN 6
            ELSE 5

\* the text ends with the word "at" followed by the name
EndsWithAt(text, name) ==
  /\ Len(text) > Len(name) + 4
  /\ SubSeq(text, Len(text) - Len(name) - 3, Len(text)) = " at " \o name

\* C22: a record whose experience is one bare string "<role> at <Company>"
\* with <Company> a top-ML-company name scores 10 for company relevance
C22_CompanyAfterAt ==
  LET experience == Resolve(candidate, "experience", List(<<>>))
  IN (Returned /\ Truthy(candidate) /\ Truthy(experience) /\ Len(experience.v) = 1
        /\ IsStr(experience.v[1])
        /\ \E i \in 1..Len(TOP_ML_COMPANIES) : EndsWithAt(experience.v[1].v, TOP_ML_COMPANIES[i])) =>
       result.breakdown.company_relevance = 10

\* the record without its headline and experience: what is left for the
\* skill match alone
WithoutText(c) == Dict([k \in DOMAIN c.v \ {"headline", "experience"} |-> c.v[k]])

\* the score before the boost: the skill-match score of the record's
\* explicit skills
PreBoost(c) == ScoreExperienceMatch(WithoutText(c), job_requirements).v

\* how many of the fixed ML/AI keywords occur in the lowercased headline or
\* experience text
KeywordCount(c) ==
  Cardinality({k \in 1..Len(ml_ai_keywords) :
                 \/ Contains(ml_ai_keywords[k], Lower(Get(c, "headline", Str("")).v))
                 \/ Contains(ml_ai_keywords[k], Lower(ExperienceText(c).v))})

\* the record lists its skills itself
ExplicitSkills(c) == Truthy(c) /\ Truthy(Get(c, "skills", List(<<>>)))

\* C23: the experience/skill-match score is the pre-boost score plus
\* exactly 1 when at least 3 keywords occur and the pre-boost score is below
\* 8, and the pre-boost score itself otherwise; it never exceeds 10
C23_KeywordBoost ==
  (Returned /\ ExplicitSkills(candidate)) =>
    /\ result.breakdown.experience_match =
         IF KeywordCount(candidate) >= 3 /\ PreBoost(candidate) < 8
           THEN PreBoost(candidate) + 1 ELSE PreBoost(candidate)
    /\ result.breakdown.experience_match <= 10

\* a pre-boost score of 7 was boosted once, to 8
C23_Witness ==
  /\ Returned /\ ExplicitSkills(candidate)
  /\ KeywordCount(candidate) >= 3
  /\ PreBoost(candidate) = 7
  /\ result.breakdown.experience_match = 8

\* the location the scorer resolves for the record
LocationOf(c) == Resolve(c, "location", Str(""))

\* the record with "remote" added to its location
WithRemote(c) ==
  LET L == LocationOf(c).v
      remote == IF L = "" THEN "Remote" ELSE L \o " (Remote)"
  IN Dict([k \in DOMAIN c.v \cup {"location"} |->
             IF k = "location" THEN Str(remote) ELSE c.v[k]])

\* the location score with "remote" added is at least 6 and at least the
\* score without it
RemoteKeepsScore ==
  LET remote == ScoreLocationMatch(WithRemote(candidate))
  IN /\ remote.t = "int"
     /\ remote.v >= 6
     /\ remote.v >= result.breakdown.location_match

NumericWord(w) == w # "" /\ \A i \in 1..Len(w) : IsDigit(Char(w, i))

\* "Mon YYYY" with a numeric year
MonthYearText(text) ==
  LET parts == SplitWs(text)
  IN Len(parts) >= 2 /\ NumericWord(parts[2])

\* an experience entry with dates and no duration whose date range cannot
\* be parsed: dates that are no string, a missing start or end part, or a
\* non-numeric year
Unparseable(exp) ==
  /\ IsDict(exp) /\ HasKey(exp, "dates") /\ ~Truthy(Get(exp, "duration", Str("")))
  /\ LET date_range == exp.v["dates"]
     IN \/ ~IsStr(date_range)
        \/ LET dates == Split(date_range.v, " - ")
           IN \/ Len(dates) < 2
              \/ ~MonthYearText(dates[1])
              \/ ~(Contains("present", Lower(dates[2])) \/ MonthYearText(dates[2]))

\* the record's top-level experience list
Entries(c) == Get(c, "experience", List(<<>>)).v

\* the record without the entries whose date range cannot be parsed
WithoutUnparseable(c) ==
  Dict([k \in DOMAIN c.v |->
          IF k = "experience"
            THEN List(SelectSeq(Entries(c), LAMBDA exp : ~Unparseable(exp)))
            ELSE c.v[k]])

\* the record's experience is a list of entries of which at least one has
\* a date range that cannot be parsed
HasUnparseable(c) ==
  /\ Truthy(c) /\ HasKey(c, "experience") /\ c.v["experience"].t = "list"
  /\ \E i \in 1..Len(Entries(c)) : Unparseable(Entries(c)[i])

\* C25: an experience entry whose date range cannot be parsed is left out of
\* the tenure average: the tenure score is the score of the record without
\* such entries, and the default 5 when no entry is left
C25_UnparseableExcluded ==
  (Returned /\ HasUnparseable(candidate)) =>
    /\ result.breakdown.tenure = ScoreTenure(WithoutUnparseable(candidate), called_at).v
    /\ (\A i \in 1..Len(Entries(candidate)) : Unparseable(Entries(candidate)[i])) =>
         result.breakdown.tenure = 5

\* a three-year entry scored 10 next to an entry with a non-numeric year
C25_Witness ==
  /\ Returned /\ HasUnparseable(candidate)
  /\ Len(Entries(candidate)) = 2
  /\ ~Unparseable(Entries(candidate)[1])
  /\ result.breakdown.tenure = 10

\* scorers constructed with each job description score the records that
\* list skills
SpecJobs == InitMatch /\ [][Next]_vars

\* what CandidateScorer(JobDescriptions[j]).score_candidate(c) returns at
\* the given time
ScoredFor(j, c, at) ==
  ScoreCandidate(c, ParseJobRequirements(JobDescriptions[j]), SCORING_WEIGHTS, at)

C27_CategoryRange ==
  (Returned /\ Truthy(candidate)) =>
    \A c \in 1..Len(Categories) : result.breakdown[Categories[c]] \in 5..10

(***************************************************************************)
(* LinkedInAgent (linkedin_agent.py): _process_profile                     *)
(***************************************************************************)
UpperChar(c) ==
  IF c \in LowerSet
    THEN Char(UpperChars, CHOOSE i \in 1..26 : Char(LowerChars, i) = c)
    ELSE c

\* s.title(): a letter that follows no letter is upper case, every other
\* letter lower case
Title(s) ==
  LET cased(i) == IF i = 1 \/ ~IsLetter(Char(s, i - 1))
                    THEN UpperChar(Char(s, i)) ELSE LowerChar(Char(s, i))
      chars == [i \in 1..Len(s) |-> cased(i)]
      join[i \in 0..Len(s)] == IF i = 0 THEN "" ELSE join[i - 1] \o chars[i]
  IN join[Len(s)]

\* s.replace("-", " ")
DashesToSpaces(s) ==
  LET join[i \in 0..Len(s)] ==
        IF i = 0 THEN "" ELSE join[i - 1] \o (IF Char(s, i) = "-" THEN " " ELSE Char(s, i))
  IN join[Len(s)]

\* d[k] = v
With(d, k, v) == Dict([x \in DOMAIN d.v \cup {k} |-> IF x = k THEN v ELSE d.v[x]])

\* self.min_request_interval (line 26), in seconds
min_request_interval == 2

\* _wait_for_rate_limit (lines 28-36): the time at which the call goes on,
\* which is also the new last_request_time
WaitForRateLimit(now, last_request_time) ==
  IF now - last_request_time < min_request_interval
    THEN last_request_time + min_request_interval
    ELSE now

\* the profile URLs a search hands over: two with a /in/ path, one without
ProfileUrls ==
  <<"https://www.linkedin.com/in/jane-doe", "https://linkedin.com/in/li-wei/details",
    "https://www.linkedin.com/pub/sam">>

\* the profile _format_profile_data builds (lines 350-360), with the
\* experience and skills the response held
FormattedProfile(linkedin_url, name, experience, skills) ==
  Dict([linkedin_url |-> Str(linkedin_url), name |-> Str(name), headline |-> Str(""),
        location |-> Str(""), summary |-> Str(""), experience |-> List(experience),
        education |-> List(<<>>), skills |-> List(skills)])

ApiExperience ==
  <<Dict([title |-> Str("ML Engineer"), company |-> Str("OpenAI"), duration |-> Str("2 yrs"),
          description |-> Str("")])>>

\* what _get_profile_from_rapidapi can return (lines 315-344): None (no
\* key, a status other than 200, an exception), or the formatted profile of
\* a response with experience and skills, with experience only, or with
\* neither
RapidAPIOutcomes(linkedin_url) ==
  <<NoneV,
    FormattedProfile(linkedin_url, "Jane Doe", ApiExperience, <<Str("Python")>>),
    FormattedProfile(linkedin_url, "Jane Doe", ApiExperience, <<>>),
    FormattedProfile(linkedin_url, "Unknown", <<>>, <<>>)>>

\* what extract_basic_linkedin_data_from_html can return (utils.py lines
\* 267-332): None, or the basic profile with empty experience and skills
HTMLOutcomes(linkedin_url) ==
  <<NoneV,
    Dict([name |-> Str("Jane Doe"), headline |-> Str("Engineer"), location |-> Str(""),
          linkedin_url |-> Str(linkedin_url), experience |-> List(<<>>),
          education |-> List(<<>>), skills |-> List(<<>>)])>>

\* lines 291-304: the profile synthesized from the URL
MinimalProfile(linkedin_url) ==
  LET username == IF Contains("/in/", linkedin_url)
                    THEN Split(Split(linkedin_url, "/in/")[2], "/")[1]
                    ELSE "unknown"
      profile_name == Title(DashesToSpaces(username))
  IN Dict([linkedin_url |-> Str(linkedin_url), name |-> Str(profile_name),
           headline |-> Str("Professional"), location |-> Str(""), summary |-> Str(""),
           experience |-> List(<<Dict([title |-> Str("Professional"), company |-> Str("Unknown")])>>),
           education |-> List(<<>>), skills |-> List(<<Str("Professional")>>)])

\* a variant that returns the retrieved profile as it came
ProcessProfileAsRetrieved(use_rapidapi, linkedin_url, rapidapi, html) ==
  LET first == IF use_rapidapi THEN rapidapi ELSE NoneV
      second == IF ~Truthy(first) THEN html ELSE first
      third == IF ~Truthy(second) THEN MinimalProfile(linkedin_url) ELSE second
  IN [profile_data |-> third,
      log |-> (IF use_rapidapi THEN <<"rapidapi">> ELSE <<>>)
                \o (IF ~Truthy(first) THEN <<"html">> ELSE <<>>)
                \o (IF ~Truthy(second) THEN <<"minimal">> ELSE <<>>)]

\* _process_profile (lines 267-314), rapidapi and html being what the two
\* retrieval functions return when they are called; log names the sources
\* in the order the function announces them ("Trying RapidAPI", "Falling
\* back to HTML scraping", "Created minimal profile")
ProcessProfile(use_rapidapi, linkedin_url, rapidapi, html) ==
  LET first == IF use_rapidapi THEN rapidapi ELSE NoneV
      second == IF ~Truthy(first) THEN html ELSE first
      third == IF ~Truthy(second) THEN MinimalProfile(linkedin_url) ELSE second
      with_experience ==
        IF ~Truthy(Get(third, "experience", NoneV))
          THEN With(third, "experience",
                    List(<<Dict([title |-> Str("Professional"), company |-> Str("Unknown")])>>))
          ELSE third
      with_skills ==
        IF ~Truthy(Get(with_experience, "skills", NoneV))
          THEN With(with_experience, "skills", List(<<Str("Professional")>>))
          ELSE with_experience
  IN [profile_data |-> with_skills,
      log |-> (IF use_rapidapi THEN <<"rapidapi">> ELSE <<>>)
                \o (IF ~Truthy(first) THEN <<"html">> ELSE <<>>)
                \o (IF ~Truthy(second) THEN <<"minimal">> ELSE <<>>)]

\* seconds a retrieval may take
RetrievalTimes == {0, 3}

\* LinkedInAgent(data_store, use_rapidapi) with two URLs to process, its
\* clock (time.time(), in seconds) at 100 and last_request_time 0 (line 25)
InitProfiles ==
  /\ InitScorer
  /\ NoBatch
  /\ weights = SCORING_WEIGHTS
  /\ candidate = EmptyDict
  /\ \E use_rapidapi \in BOOLEAN, a \in 1..Len(ProfileUrls), b \in 1..Len(ProfileUrls) :
       /\ a # b
       /\ agent = [use_rapidapi |-> use_rapidapi, now |-> 100, last_request_time |-> 0,
                   linkedin_urls |-> <<ProfileUrls[a], ProfileUrls[b]>>,
                   candidates |-> <<>>, calls |-> <<>>]

\* one pass of the loop of _extract_profile_data (lines 260-263): the next
\* URL is processed and the profile, if any, appended; calls keeps what the
\* two sources held for the URL and the sources the call announced
ExtractProfile ==
  /\ agent # NoneV
  /\ Len(agent.calls) < Len(agent.linkedin_urls)
  /\ LET linkedin_url == agent.linkedin_urls[Len(agent.calls) + 1]
         started == WaitForRateLimit(agent.now, agent.last_request_time)
     IN \E r \in 1..Len(RapidAPIOutcomes(linkedin_url)), h \in 1..Len(HTMLOutcomes(linkedin_url)),
           took \in RetrievalTimes :
          LET rapidapi == RapidAPIOutcomes(linkedin_url)[r]
              html == HTMLOutcomes(linkedin_url)[h]
              done == ProcessProfile(agent.use_rapidapi, linkedin_url, rapidapi, html)
          IN agent' = [agent EXCEPT
                         !.now = started + took,
                         !.last_request_time = started,
                         !.candidates = IF Truthy(done.profile_data)
                                          THEN Append(@, done.profile_data) ELSE @,
                         !.calls = Append(@, [rapidapi |-> rapidapi, html |-> html,
                                              log |-> done.log])]
  /\ UNCHANGED <<job_description, job_requirements, weights, candidate, clock, result, previous,
                 called_at, batch, workers, keywords>>

NextProfiles == ExtractProfile

SpecProfiles == InitProfiles /\ [][NextProfiles]_vars

\* the profile is the retrieved one but for its experience and skills
SameBut(profile, retrieved) ==
  /\ DOMAIN profile.v = DOMAIN retrieved.v
  /\ \A k \in DOMAIN retrieved.v \ {"experience", "skills"} : profile.v[k] = retrieved.v[k]

\* call i of the agent went through the sources in the fixed order and
\* returned the profile of the first source that held one
InOrder(i) ==
  LET call == agent.calls[i]
      profile == agent.candidates[i]
      asked_rapidapi == agent.use_rapidapi
      asked_html == ~(agent.use_rapidapi /\ Truthy(call.rapidapi))
      synthesized == asked_html /\ ~Truthy(call.html)
  IN /\ call.log = (IF asked_rapidapi THEN <<"rapidapi">> ELSE <<>>)
                     \o (IF asked_html THEN <<"html">> ELSE <<>>)
                     \o (IF synthesized THEN <<"minimal">> ELSE <<>>)
     /\ IF ~asked_html THEN SameBut(profile, call.rapidapi)
        ELSE IF ~synthesized THEN SameBut(profile, call.html)
        ELSE profile.v["headline"] = Str("Professional")

\* C28: every _process_profile call returns a profile whose experience and
\* skills lists are non-empty; RapidAPI, HTML scraping and the synthesized
\* profile are tried in this order, a later one only when every earlier one
\* was disabled or returned nothing
C28_ProfileSources ==
  agent # NoneV =>
    /\ Len(agent.candidates) = Len(agent.calls)
    /\ \A i \in 1..Len(agent.calls) :
         /\ IsDict(agent.candidates[i])
         /\ Truthy(Get(agent.candidates[i], "experience", NoneV))
         /\ Truthy(Get(agent.candidates[i], "skills", NoneV))
         /\ InOrder(i)

\* with RapidAPI enabled both sources returned nothing for the second URL,
\* and the first URL was served by RapidAPI without any skills
C28_Witness ==
  /\ agent # NoneV
  /\ agent.use_rapidapi
  /\ Len(agent.calls) = 2
  /\ agent.calls[1].log = <<"rapidapi">>
  /\ ~Truthy(agent.calls[1].rapidapi.v["skills"])
  /\ agent.calls[2].log = <<"rapidapi", "html", "minimal">>
  /\ agent.candidates[2].v["name"] \in {Str("Jane Doe"), Str("Li Wei"), Str("Unknown")}

(***************************************************************************)
(* LinkedInAgent (linkedin_agent.py): _filter_candidates                   *)
(***************************************************************************)
\* [x.lower() for x in list_of_str]
LowerEach(list) == [i \in 1..Len(list.v) |-> Lower(list.v[i].v)]

\* any(skill in text for skill in job_skills) or job_title in text
MatchesJob(text, job_title, job_skills) ==
  (\E k \in 1..Len(job_skills) : Contains(job_skills[k], text)) \/ Contains(job_title, text)

\* relevance_score of one candidate (lines 205-240)
Relevance(cand, job_title, job_skills) ==
  LET headline == Lower(Get(cand, "headline", Str("")).v)
      experiences == Get(cand, "experience", List(<<>>))
      candidate_skills == LowerEach(Get(cand, "skills", List(<<>>)))
      skill_match ==
        \E j \in 1..Len(job_skills), c \in 1..Len(candidate_skills) :
          Contains(job_skills[j], candidate_skills[c]) \/ Contains(candidate_skills[c], job_skills[j])
  IN (IF MatchesJob(headline, job_title, job_skills) THEN 2 ELSE 0)
     + (IF \E e \in 1..Len(experiences.v) :
             MatchesJob(Lower(Get(experiences.v[e], "title", Str("")).v), job_title, job_skills)
          THEN 2 ELSE 0)
     + (IF skill_match THEN 1 ELSE 0)
     + (IF Truthy(experiences) /\ Len(candidate_skills) > 0 THEN 1 ELSE 0)

\* lines 201-253 once the requirements are parsed
FilterWith(candidates, job_title, job_skills) ==
  LET kept(cand) == Relevance(cand, job_title, job_skills) > 0 \/ Len(candidates) <= 5
      filtered_candidates == SelectSeq(candidates, kept)
  IN IF Len(filtered_candidates) = 0 THEN SubSeq(candidates, 1, 3) ELSE filtered_candidates

\* a variant that returns what passed the filter, be it nothing
FilterCandidatesStrict(candidates, description) ==
  IF Len(candidates) <= 3 THEN candidates
  ELSE LET job_req == ParseJobRequirements(description)
           job_title == Lower(Get(job_req, "title", Str("")).v)
           job_skills == LowerEach(Get(job_req, "skills", List(<<>>)))
       IN SelectSeq(candidates,
                    LAMBDA cand : Relevance(cand, job_title, job_skills) > 0 \/ Len(candidates) <= 5)

\* _filter_candidates (lines 184-253)
FilterCandidates(candidates, description) ==
  IF Len(candidates) = 0 THEN <<>>
  ELSE IF Len(candidates) <= 3 THEN candidates
  ELSE LET job_req == ParseJobRequirements(description)
       IN FilterWith(candidates, Lower(Get(job_req, "title", Str("")).v),
                     LowerEach(Get(job_req, "skills", List(<<>>))))

\* the names of the candidates of a pool, by position
CandidateNames == <<"c1", "c2", "c3", "c4", "c5", "c6">>

\* three kinds of profile: one that names no role, skill or experience of
\* the modelled jobs; one whose headline names the role of the first job
\* and whose experience names that of the third; one with skills of the
\* first and second job and an experience entry
ProfileKinds ==
  <<[headline |-> Str("Florist"), experience |-> List(<<>>), skills |-> List(<<>>)],
    [headline |-> Str("Senior ML Engineer"),
     experience |-> List(<<Dict([title |-> Str("Barista"), company |-> Str("Random Cafe")])>>),
     skills |-> List(<<>>)],
    [headline |-> Str("Chef"),
     experience |-> List(<<Dict([title |-> Str("Cook"), company |-> Str("Random Cafe")])>>),
     skills |-> List(<<Str("PyTorch"), Str("SQL")>>)]>>

\* the kinds a pool holds at position i: the first kind anywhere, the
\* second at odd and the third at even positions
KindsAt(i) == IF i % 2 = 1 THEN {1, 2} ELSE {1, 3}

\* candidate number i of a pool, of the given kind
PoolCandidate(i, kind) ==
  Dict([name |-> Str(CandidateNames[i]), headline |-> ProfileKinds[kind].headline,
        experience |-> ProfileKinds[kind].experience, skills |-> ProfileKinds[kind].skills])

\* a LinkedInAgent holding up to six candidates to filter
InitFilter ==
  /\ InitScorer
  /\ NoBatch
  /\ weights = SCORING_WEIGHTS
  /\ candidate = EmptyDict
  /\ \E n \in 0..Len(CandidateNames) :
       \E kinds \in {k \in [1..n -> 1..Len(ProfileKinds)] : \A i \in 1..n : k[i] \in KindsAt(i)} :
         agent = [candidates |-> [i \in 1..n |-> PoolCandidate(i, kinds[i])],
                  filtered |-> NoneV]

\* filtered_candidates = self._filter_candidates(candidates, job_description)
\* (line 179)
FilterCall ==
  /\ agent # NoneV
  /\ agent.filtered = NoneV
  /\ agent' = [agent EXCEPT !.filtered = List(FilterCandidates(agent.candidates, job_description))]
  /\ UNCHANGED <<job_description, job_requirements, weights, candidate, clock, result, previous,
                 called_at, batch, workers, keywords>>

NextFilter == FilterCall

SpecFilter == InitFilter /\ [][NextFilter]_vars

\* _filter_candidates has returned
Filtered == agent # NoneV /\ agent.filtered # NoneV

\* the position a pool candidate was given
NameIndex(cand) == CHOOSE i \in 1..Len(CandidateNames) : CandidateNames[i] = cand.v["name"].v

\* sub holds candidates of full, each as it is in full, in the order of full
IsSubList(sub, full) ==
  /\ \A i \in 1..Len(sub) :
       NameIndex(sub[i]) <= Len(full) /\ full[NameIndex(sub[i])] = sub[i]
  /\ \A i \in 1..Len(sub), j \in 1..Len(sub) : i < j => NameIndex(sub[i]) < NameIndex(sub[j])

\* the filter finds nothing relevant in the candidate
Rejected(cand) ==
  Relevance(cand, Lower(Get(job_requirements, "title", Str("")).v),
            LowerEach(Get(job_requirements, "skills", List(<<>>)))) = 0

\* C29: _filter_candidates returns a sub-list of its input in input order,
\* the input itself when it holds at most 3 candidates, a non-empty list
\* for a non-empty input, and the first 3 candidates when it rejects all
C29_FilterSubList ==
  Filtered =>
    /\ IsSubList(agent.filtered.v, agent.candidates)
    /\ Len(agent.candidates) <= 3 => agent.filtered.v = agent.candidates
    /\ Len(agent.candidates) > 0 => Len(agent.filtered.v) > 0
    /\ (Len(agent.candidates) > 5 /\ \A i \in 1..Len(agent.candidates) : Rejected(agent.candidates[i]))
         => agent.filtered.v = SubSeq(agent.candidates, 1, 3)

\* six candidates were all rejected and the first three returned
C29_Witness ==
  /\ Filtered
  /\ Len(agent.candidates) = 6
  /\ \A i \in 1..6 : Rejected(agent.candidates[i])
  /\ Len(agent.filtered.v) = 3

(***************************************************************************)
(* LinkedInAgent (linkedin_agent.py): score_candidates, _score_candidate   *)
(***************************************************************************)
\* str(x).lower() of a field that holds a str
LowerField(d, k) == Lower(Get(d, k, Str("")).v)

\* _score_candidate (lines 504-644) without the language-model blend
\* (OPENAI_API_KEY unset); job_title, job_skills, job_location and the
\* keywords kept are passed by score_candidates, and lines 510-517 recompute an empty one
\* from the same job description to the same value
RuleScore(cand, job_title, job_skills, job_location, kept) ==
  LET headline == LowerField(cand, "headline")
      candidate_skills == LowerEach(Get(cand, "skills", List(<<>>)))
      skill_matches ==
        Cardinality({j \in 1..Len(job_skills) :
                       \E c \in 1..Len(candidate_skills) :
                         \/ Contains(job_skills[j], candidate_skills[c])
                         \/ Contains(candidate_skills[c], job_skills[j])})
      experience == Get(cand, "experience", List(<<>>)).v
      ExpScore(exp) ==
        LET exp_title == LowerField(exp, "title")
            exp_company == LowerField(exp, "company")
        IN (IF Contains(job_title, exp_title) THEN 2
            ELSE IF \E k \in 1..Len(job_skills) : Contains(job_skills[k], exp_title) THEN 1
            ELSE 0)
           + (IF \E w \in kept : Contains(Lower(w), exp_title) \/ Contains(Lower(w), exp_company)
                THEN 1 ELSE 0)
      experience_sum[i \in 0..Len(experience)] ==
        IF i = 0 THEN 0 ELSE experience_sum[i - 1] + ExpScore(experience[i])
      education == Get(cand, "education", List(<<>>)).v
      EduScore(edu) ==
        LET edu_degree == LowerField(edu, "degree")
            edu_field == LowerField(edu, "field")
        IN (IF Contains("phd", edu_degree) THEN 3
            ELSE IF Contains("master", edu_degree) \/ Contains("ms", edu_degree) THEN 2
            ELSE IF Contains("bachelor", edu_degree) \/ Contains("bs", edu_degree)
                      \/ Contains("ba", edu_degree) THEN 1
            ELSE 0)
           + (IF \E w \in kept : Contains(Lower(w), edu_field) THEN 1 ELSE 0)
      education_sum[i \in 0..Len(education)] ==
        IF i = 0 THEN 0 ELSE education_sum[i - 1] + EduScore(education[i])
      score == (IF Contains(job_title, headline) THEN 2 ELSE 0)
               + Min(5, skill_matches)
               + Min(5, experience_sum[Len(experience)])
               + Min(3, education_sum[Len(education)])
               + (IF job_location # "" /\ Contains(job_location, LowerField(cand, "location"))
                    THEN 1 ELSE 0)
  IN Min(10, score)

\* x.get("score", 0)
ScoreOf(cand) == Get(cand, "score", PyInt(0)).v

\* list.sort(key=score, reverse=True): by falling score, candidates of
\* equal score in the order they had
SortByScore(list) ==
  LET Before(a, b) == ScoreOf(list[a]) > ScoreOf(list[b])
                        \/ (ScoreOf(list[a]) = ScoreOf(list[b]) /\ a < b)
      Rank(a) == 1 + Cardinality({b \in 1..Len(list) : Before(b, a)})
  IN [r \in 1..Len(list) |-> list[CHOOSE a \in 1..Len(list) : Rank(a) = r]]

\* a sort that puts candidates of equal score in reverse order
SortByScoreReversing(list) ==
  LET Before(a, b) == ScoreOf(list[a]) > ScoreOf(list[b])
                        \/ (ScoreOf(list[a]) = ScoreOf(list[b]) /\ a > b)
      Rank(a) == 1 + Cardinality({b \in 1..Len(list) : Before(b, a)})
  IN [r \in 1..Len(list) |-> list[CHOOSE a \in 1..Len(list) : Rank(a) = r]]

RECURSIVE ScoredFrom(_, _, _, _, _, _)
\* the loop of lines 493-496 from candidate i on: every candidate with its
\* score attached, in input order
ScoredFrom(candidates, i, job_title, job_skills, job_location, kept) ==
  IF i > Len(candidates) THEN <<>>
  ELSE <<With(candidates[i], "score",
              PyInt(RuleScore(candidates[i], job_title, job_skills, job_location, kept)))>>
       \o ScoredFrom(candidates, i + 1, job_title, job_skills, job_location, kept)

\* lines 493-496 once requirements and keywords are extracted
Scored(candidates, job_title, job_skills, job_location, kept) ==
  ScoredFrom(candidates, 1, job_title, job_skills, job_location, kept)

\* a variant whose sort reverses candidates of equal score
ScoreCandidatesReversing(candidates, description, kept) ==
  LET job_req == ParseJobRequirements(description)
  IN SortByScoreReversing(Scored(candidates, LowerField(job_req, "title"),
                                 LowerEach(Get(job_req, "skills", List(<<>>))),
                                 LowerField(job_req, "location"), kept))

\* score_candidates (lines 479-502), kept being the keywords the extractor
\* returned for the description
ScoreCandidates(candidates, description, kept) ==
  LET job_req == ParseJobRequirements(description)
  IN SortByScore(Scored(candidates, LowerField(job_req, "title"),
                        LowerEach(Get(job_req, "skills", List(<<>>))),
                        LowerField(job_req, "location"), kept))

\* the candidates of a pool to rank: one with nothing to score, one with a
\* full ML profile, one with some skills and a first degree, one with the
\* ML headline only
RankKinds ==
  <<Dict([headline |-> Str("Florist"), location |-> Str(""), experience |-> List(<<>>),
          education |-> List(<<>>), skills |-> List(<<>>)]),
    Dict([headline |-> Str("Senior ML Engineer"), location |-> Str("Mountain View, CA"),
          experience |-> List(<<Dict([title |-> Str("ML Engineer"), company |-> Str("Windsurf")]),
                                 Dict([title |-> Str("Python developer"), company |-> Str("Acme")]),
                                 Dict([title |-> Str("ML Engineer"), company |-> Str("Hooli")])>>),
          education |-> List(<<Dict([degree |-> Str("PhD"), field |-> Str("Machine Learning")])>>),
          skills |-> List(<<Str("Python"), Str("PyTorch")>>)]),
    Dict([headline |-> Str("Data Analyst"), location |-> Str("Remote"),
          experience |-> List(<<Dict([title |-> Str("Analyst"), company |-> Str("Acme Data")])>>),
          education |-> List(<<Dict([degree |-> Str("BS"), field |-> Str("Statistics")])>>),
          skills |-> List(<<Str("SQL"), Str("Python")>>)]),
    Dict([headline |-> Str("ML Engineer and barista"), location |-> Str(""),
          experience |-> List(<<>>), education |-> List(<<>>), skills |-> List(<<>>)])>>

\* how many candidates a pool to rank holds at most
RankNames == <<"c1", "c2", "c3">>

\* a LinkedInAgent holding up to three candidates to score
InitRank ==
  /\ InitScorer
  /\ NoBatch
  /\ weights = SCORING_WEIGHTS
  /\ candidate = EmptyDict
  /\ \E n \in 0..Len(RankNames) :
       \E kinds \in [1..n -> 1..Len(RankKinds)] :
         agent = [candidates |-> [i \in 1..n |-> With(RankKinds[kinds[i]], "name", Str(RankNames[i]))],
                  scored |-> NoneV]

\* scored = agent.score_candidates(candidates, job_description); the score
\* is attached to the caller's records themselves (line 495)
RankCall ==
  /\ agent # NoneV
  /\ agent.scored = NoneV
  /\ \E kept \in ExtractKeywordsFromJob(job_description) :
       \E scored_candidates \in {ScoreCandidates(agent.candidates, job_description, kept)} :
          agent' = [candidates |->
                      [i \in 1..Len(agent.candidates) |->
                         CHOOSE c \in {scored_candidates[j] : j \in 1..Len(scored_candidates)} :
                           c.v["name"] = agent.candidates[i].v["name"]],
                    scored |-> List(scored_candidates)]
  /\ UNCHANGED <<job_description, job_requirements, weights, candidate, clock, result, previous,
                 called_at, batch, workers, keywords>>

NextRank == RankCall

SpecRank == InitRank /\ [][NextRank]_vars

\* score_candidates has returned
Ranked == agent # NoneV /\ agent.scored # NoneV

\* the record without its score
WithoutScore(cand) == Dict([k \in DOMAIN cand.v \ {"score"} |-> cand.v[k]])

\* the position of a candidate in the input, read from its name
InputIndex(cand) == CHOOSE i \in 1..Len(RankNames) : RankNames[i] = cand.v["name"].v

\* out holds each candidate of input once, with a score in 0..10 attached,
\* by falling score and in input order where scores are equal
RankedFrom(input, out) ==
  /\ Len(out) = Len(input)
  /\ \A j \in 1..Len(out) :
       /\ "score" \in DOMAIN out[j].v
       /\ out[j].v["score"].t = "int"
       /\ ScoreOf(out[j]) \in 0..10
       /\ InputIndex(out[j]) <= Len(input)
       /\ WithoutScore(out[j]) = input[InputIndex(out[j])]
  /\ \A j \in 1..Len(out), k \in 1..Len(out) :
       j < k => \/ ScoreOf(out[j]) > ScoreOf(out[k])
                \/ ScoreOf(out[j]) = ScoreOf(out[k]) /\ InputIndex(out[j]) < InputIndex(out[k])

\* C30: score_candidates returns exactly the input candidates, each with a
\* score in [0,10] under the key score, ordered by non-increasing score,
\* candidates of equal score in input order
C30_Ranking ==
  [][(~Ranked /\ agent'.scored # NoneV) => RankedFrom(agent.candidates, agent'.scored.v)]_vars

\* three candidates were ranked, the two of equal score behind the third
\* and in input order
C30_Witness ==
  /\ Ranked
  /\ Len(agent.scored.v) = 3
  /\ InputIndex(agent.scored.v[1]) = 3
  /\ InputIndex(agent.scored.v[2]) = 1
  /\ InputIndex(agent.scored.v[3]) = 2
  /\ ScoreOf(agent.scored.v[1]) = 10
  /\ ScoreOf(agent.scored.v[2]) = ScoreOf(agent.scored.v[3])
  /\ ScoreOf(agent.scored.v[2]) > 0

====
